---------------------------- MODULE Spec2Model ----------------------------
(***************************************************************************)
(* Model of the container + trust-chain codec of nintendo-file-formats:    *)
(* the byte cursor (Stream), the signature table, and the Certificate,     *)
(* Ticket, TMD and CIA parsers and encoders.                               *)
(*                                                                         *)
(* Buffers are sequences of bytes (0..255), 1-indexed in TLA+ while every  *)
(* offset of the model is the 0-based offset of the source.  Strings are   *)
(* sequences of code points.  A 64-bit integer is kept as three limbs      *)
(* [h, m, l] (signed top 16 bits, middle 24 bits, low 24 bits) because the *)
(* model checker's integers are 32 bits wide; 32-bit fields of the inputs  *)
(* are kept below 2^31 for the same reason.                                *)
(***************************************************************************)
EXTENDS Integers, Sequences, FiniteSets, TLC

VARIABLES
    kind,       \* which entry point this run exercises
    pc,         \* position of the run inside that entry point
    input,      \* the backing byte buffer handed to the constructor
    offset,     \* Stream.offset of the outer stream
    obj,        \* the structure under construction / returned
    err,        \* the error thrown, "" when none
    missing,    \* the count a content-index mismatch error reports
    active,     \* parseContentIndex's local set activeContents, once computed
    encoded,    \* result of bytes() on the parsed structure
    reparsed,   \* result of parsing `encoded` again
    ret,        \* what exportKey() / verifySignature() returned
    held,       \* the caller made the instance itself, before it parses
    prior       \* outcome of the parse of the input this one was made from

vars == <<kind, pc, input, offset, obj, err, missing, active, encoded, reparsed, ret, held, prior>>

Null == [null |-> TRUE]

(***************************************************************************)
(* Bytes and small helpers                                                 *)
(***************************************************************************)
Repeat(b, n) == [i \in 1..n |-> b]

Zeros(n) == [i \in 1..n |-> 0]

Min(a, b) == IF a < b THEN a ELSE b
Max(a, b) == IF a > b THEN a ELSE b

\* Buffer.subarray(start, end): negative indices count from the end, both
\* ends are clamped to the buffer, an inverted range is empty.
Subarray(buf, start, end) ==
    LET len == Len(buf)
        s == IF start < 0 THEN Max(len + start, 0) ELSE Min(start, len)
        e == IF end < 0 THEN Max(len + end, 0) ELSE Min(end, len)
    IN  IF e <= s THEN <<>> ELSE SubSeq(buf, s + 1, e)

\* source.copy(target, targetStart): copies what fits, nothing when the
\* start lies at or beyond the end of the target.
Copy(src, target, targetStart) ==
    IF targetStart >= Len(target) THEN target
    ELSE LET n == Min(Len(src), Len(target) - targetStart)
         IN  SubSeq(target, 1, targetStart) \o SubSeq(src, 1, n)
               \o SubSeq(target, targetStart + n + 1, Len(target))

\* A run of writes into `buf` in program order, each <<targetStart, bytes>>
\* with the effect of Copy: a byte takes the value of the last write that
\* covers it and keeps its own value when none does.
CopyAll(writes, buf) ==
    LET covering(j) == {k \in 1..Len(writes) :
                           writes[k][1] < j /\ j <= writes[k][1] + Len(writes[k][2])}
        byteAt(j) ==
            IF covering(j) = {} THEN buf[j]
            ELSE LET k == CHOOSE c \in covering(j) : \A o \in covering(j) : o <= c
                 IN  writes[k][2][j - writes[k][1]]
    IN  SubSeq([j \in 1..Len(buf) |-> byteAt(j)], 1, Len(buf))

(***************************************************************************)
(* Stream (src/src/stream.ts)                                              *)
(***************************************************************************)
\* A read that returns `length` bytes whatever is left, zero-filled.
readZeroFilled(buf, off, length) ==
    Subarray(buf, off, off + length)
      \o [i \in 1..(length - Len(Subarray(buf, off, off + length))) |-> 0]

\* Stream.read(length): the bytes returned; the offset moves by `length`
\* whatever was returned.
read(buf, off, length) == Subarray(buf, off, off + length)
readBytes(buf, off, length) == read(buf, off, length)

remaining(buf, off) == Len(buf) - off

\* Math.ceil(offset / alignment) * alignment
alignBlock(off, alignment) ==
    IF off % alignment = 0 THEN off ELSE (off \div alignment + 1) * alignment

\* Buffer.readUIntXX on the result of readBytes(n) throws a RangeError when
\* fewer than n bytes came back.
CanReadInt(buf, off, n) == Len(read(buf, off, n)) = n

readUInt8(buf, off) == read(buf, off, 1)[1]
readUInt16BE(buf, off) == LET b == read(buf, off, 2) IN b[1] * 256 + b[2]
readUInt16LE(buf, off) == LET b == read(buf, off, 2) IN b[2] * 256 + b[1]
readUInt32BE(buf, off) ==
    LET b == read(buf, off, 4)
    IN  b[1] * 16777216 + b[2] * 65536 + b[3] * 256 + b[4]
readUInt32LE(buf, off) ==
    LET b == read(buf, off, 4)
    IN  b[4] * 16777216 + b[3] * 65536 + b[2] * 256 + b[1]

\* Buffer.readBigInt64BE: a SIGNED 64-bit value, as limbs.
Limbs(b) ==
    LET top == b[1] * 256 + b[2]
    IN  [h |-> IF top >= 32768 THEN top - 65536 ELSE top,
         m |-> b[3] * 65536 + b[4] * 256 + b[5],
         l |-> b[6] * 65536 + b[7] * 256 + b[8]]
Reverse(s) == [i \in 1..Len(s) |-> s[Len(s) + 1 - i]]
readUInt64BE(buf, off) == Limbs(read(buf, off, 8))
readUInt64LE(buf, off) == Limbs(Reverse(read(buf, off, 8)))

\* Number(bigint), for the values whose magnitude fits the model's integers.
ToNumber(v) ==
    CASE v.h = 0 /\ v.m = 0 -> v.l
      [] v.h = -1 /\ v.m = 16777215 -> v.l - 16777216

\* Buffer.writeUInt8/16/32BE: the bytes written.
UInt16BEBytes(v) == <<v \div 256, v % 256>>
UInt32BEBytes(v) ==
    <<v \div 16777216, (v \div 65536) % 256, (v \div 256) % 256, v % 256>>
\* Buffer.writeBigUInt64BE: throws ERR_OUT_OF_RANGE for a negative value
\* (CanWriteBigUInt64 is its range check), else writes these bytes.
CanWriteBigUInt64(v) == ~(v.h < 0)
BigUInt64BEBytes(v) ==
    <<v.h \div 256, v.h % 256,
      v.m \div 65536, (v.m \div 256) % 256, v.m % 256,
      v.l \div 65536, (v.l \div 256) % 256, v.l % 256>>

(***************************************************************************)
(* FileStream on a file descriptor (src/src/file-stream.ts).  fs is the    *)
(* stream object [fd, fileSize, buffer, offset], `data` the file contents. *)
(* An undefined fileSize is kept as 0: the code only tests its truthiness. *)
(***************************************************************************)
\* FileStream.remaining(): `if (this.fileSize)`, else Stream.remaining().
FileStream_remaining(fs) ==
    IF fs.fileSize # 0 THEN fs.fileSize - fs.offset
    ELSE remaining(fs.buffer, fs.offset)

\* FileStream.read(length), the bytes returned or the error thrown.  With
\* `this.fd` truthy: Buffer.alloc(length), zero-filled, into which
\* fs.readSync copies what the file holds from `position` on; position is
\* this.offset, and for a negative offset stands for what readSync makes
\* of it: -1 when it rejects the position, else the file position it
\* reads from.  With `this.fd` falsy: the (empty) buffer's subarray.
FileStream_read(fs, data, length, position) ==
    IF fs.fd # 0
    THEN IF position < 0 THEN [throws |-> "ERR_OUT_OF_RANGE"]
         ELSE [bytes |-> Copy(Subarray(data, position, position + length),
                              [i \in 1..length |-> 0], 0)]
    ELSE [bytes |-> read(fs.buffer, fs.offset, length)]

(***************************************************************************)
(* Strings: Buffer.toString() (UTF-8), String.split('\0')[0], Buffer.write *)
(***************************************************************************)
\* Buffer.toString(): UTF-8 decoding with U+FFFD for every maximal ill-formed
\* subpart.  Sequences of one to three bytes are decoded; the lead bytes of
\* four-byte sequences (0xF0..0xF4) occur in no buffer explored and are
\* treated like 0xF5..0xFF.

\* The number of bytes the unit that starts at a non-continuation byte takes.
Utf8UnitLen(bytes, i) ==
    IF bytes[i] \in 194..223
    THEN IF i + 1 <= Len(bytes) /\ bytes[i + 1] \in 128..191 THEN 2 ELSE 1
    ELSE IF bytes[i] \in 224..239
    THEN IF i + 1 <= Len(bytes)
            /\ bytes[i + 1] \in (CASE bytes[i] = 224 -> 160..191
                                  [] bytes[i] = 237 -> 128..159
                                  [] OTHER -> 128..191)
         THEN IF i + 2 <= Len(bytes) /\ bytes[i + 2] \in 128..191 THEN 3 ELSE 2
         ELSE 1
    ELSE 1

\* A continuation byte that belongs to the unit of a lead byte before it.
Utf8Covered(bytes, i) ==
    /\ bytes[i] \in 128..191
    /\ \E j \in {i - 1, i - 2} :
          j >= 1 /\ bytes[j] >= 192 /\ j + Utf8UnitLen(bytes, j) > i

\* The character of the unit that starts at i.
Utf8UnitValue(bytes, i) ==
    IF bytes[i] < 128 THEN bytes[i]
    ELSE IF bytes[i] \in 194..223 /\ Utf8UnitLen(bytes, i) = 2
    THEN (bytes[i] - 192) * 64 + (bytes[i + 1] - 128)
    ELSE IF bytes[i] \in 224..239 /\ Utf8UnitLen(bytes, i) = 3
    THEN (bytes[i] - 224) * 4096 + (bytes[i + 1] - 128) * 64 + (bytes[i + 2] - 128)
    ELSE 65533

Utf8Decode(bytes) ==
    SelectSeq([i \in 1..Len(bytes) |->
                  IF Utf8Covered(bytes, i) THEN -1 ELSE Utf8UnitValue(bytes, i)],
              LAMBDA v : v >= 0)

\* Index of the first U+0000 of `chars`, Len(chars) + 1 when there is none.
FirstNul(chars) ==
    LET nul == {i \in 1..Len(chars) : chars[i] = 0}
    IN  IF nul = {} THEN Len(chars) + 1
        ELSE CHOOSE i \in nul : \A j \in nul : i <= j

\* readBytes(0x40).toString().split('\0')[0]
readName(buf, off) ==
    SubSeq(Utf8Decode(readBytes(buf, off, 64)), 1,
           FirstNul(Utf8Decode(readBytes(buf, off, 64))) - 1)

Utf8Encode(c) ==
    IF c < 128 THEN <<c>>
    ELSE IF c < 2048 THEN <<192 + (c \div 64), 128 + (c % 64)>>
    ELSE <<224 + (c \div 4096), 128 + ((c \div 64) % 64), 128 + (c % 64)>>

\* The UTF-8 encoding of a whole string.
RECURSIVE Utf8EncodeAll(_)
Utf8EncodeAll(chars) ==
    IF chars = <<>> THEN <<>>
    ELSE IF Len(chars) = 1 THEN Utf8Encode(chars[1])
    ELSE LET half == Len(chars) \div 2
         IN  Utf8EncodeAll(SubSeq(chars, 1, half))
               \o Utf8EncodeAll(SubSeq(chars, half + 1, Len(chars)))

\* The bytes buf.write(string, offset, length) writes: whole characters
\* only, as many as fit in `room` bytes.  A cut may only fall where the next
\* byte is not a continuation byte (0x80..0xBF).
Utf8Fit(chars, room) ==
    LET all == Utf8EncodeAll(chars)
        cuts == {p \in Max(room - 2, 0)..Max(room, 0) :
                    p < Len(all) /\ all[p + 1] \notin 128..191}
    IN  IF Len(all) <= room THEN all
        ELSE IF cuts = {} THEN <<>>
        ELSE SubSeq(all, 1, CHOOSE p \in cuts : \A q \in cuts : q <= p)

\* buf.write(string, offset, length); length defaults to the rest of buf.
Write(buf, chars, off, length) ==
    Copy(Utf8Fit(chars, Min(length, Len(buf) - off)), buf, off)

(***************************************************************************)
(* Signature table (signatures.ts)                                         *)
(***************************************************************************)
SIGNATURE_SIZES ==
    [RSA_4096_SHA1      |-> [SIGNATURE |-> 512, PADDING |-> 60, TOTAL |-> 512 + 60],
     RSA_2048_SHA1      |-> [SIGNATURE |-> 256, PADDING |-> 60, TOTAL |-> 256 + 60],
     ELLIPTIC_CURVE_SHA1 |-> [SIGNATURE |-> 60, PADDING |-> 64, TOTAL |-> 60 + 64],
     RSA_4096_SHA256    |-> [SIGNATURE |-> 512, PADDING |-> 60, TOTAL |-> 512 + 60],
     RSA_2048_SHA256    |-> [SIGNATURE |-> 256, PADDING |-> 60, TOTAL |-> 256 + 60],
     ECDSA_233R1_SHA256 |-> [SIGNATURE |-> 60, PADDING |-> 64, TOTAL |-> 60 + 64]]

SigTypeBase == 65536

KnownSignatureType(signatureType) ==
    signatureType \in SigTypeBase..(SigTypeBase + 5)

\* A switch whose 0x10002 case returns the entry of the case above it.
getSignatureSizeRepeatedCase(signatureType) ==
    CASE signatureType = SigTypeBase     -> SIGNATURE_SIZES.RSA_4096_SHA1
      [] signatureType = SigTypeBase + 1 -> SIGNATURE_SIZES.RSA_2048_SHA1
      [] signatureType = SigTypeBase + 2 -> SIGNATURE_SIZES.RSA_2048_SHA1
      [] signatureType = SigTypeBase + 3 -> SIGNATURE_SIZES.RSA_4096_SHA256
      [] signatureType = SigTypeBase + 4 -> SIGNATURE_SIZES.RSA_2048_SHA256
      [] signatureType = SigTypeBase + 5 -> SIGNATURE_SIZES.ECDSA_233R1_SHA256
      [] OTHER -> [throws |-> "UnknownSignatureType"]

\* getSignatureSize: the switch; the default branch throws.
getSignatureSize(signatureType) ==
    CASE signatureType = SigTypeBase     -> SIGNATURE_SIZES.RSA_4096_SHA1
      [] signatureType = SigTypeBase + 1 -> SIGNATURE_SIZES.RSA_2048_SHA1
      [] signatureType = SigTypeBase + 2 -> SIGNATURE_SIZES.ELLIPTIC_CURVE_SHA1
      [] signatureType = SigTypeBase + 3 -> SIGNATURE_SIZES.RSA_4096_SHA256
      [] signatureType = SigTypeBase + 4 -> SIGNATURE_SIZES.RSA_2048_SHA256
      [] signatureType = SigTypeBase + 5 -> SIGNATURE_SIZES.ECDSA_233R1_SHA256
      [] OTHER -> [throws |-> "UnknownSignatureType"]

Throws(r) == "throws" \in DOMAIN r

Fail(e, off) == [err |-> e, off |-> off, val |-> Null]
Ok(v, off) == [err |-> "", off |-> off, val |-> v]

\* A parseSignature that rejects a signature whose first byte is 0x40.
readSignatureChecked(buf, off, signatureType, signatureSize) ==
    IF Throws(signatureSize) THEN Fail(signatureSize.throws, off + 4)
    ELSE IF /\ readBytes(buf, off + 4, signatureSize.SIGNATURE) # <<>>
            /\ readBytes(buf, off + 4, signatureSize.SIGNATURE)[1] = 64
    THEN Fail("InvalidSignature", off + 4 + signatureSize.SIGNATURE)
    ELSE Ok([signatureType |-> signatureType,
             signature |-> readBytes(buf, off + 4, signatureSize.SIGNATURE)],
            off + 4 + signatureSize.SIGNATURE + signatureSize.PADDING)

\* A parseSignature that keeps the padding as the tail of the signature.
readSignatureWithPadding(buf, off, signatureType, signatureSize) ==
    IF Throws(signatureSize) THEN Fail(signatureSize.throws, off + 4)
    ELSE Ok([signatureType |-> signatureType,
             signature |-> readBytes(buf, off + 4, signatureSize.TOTAL)],
            off + 4 + signatureSize.SIGNATURE + signatureSize.PADDING)

\* parseSignature of Certificate, Ticket and TMD (the three are the same
\* code): signature type, signature, then the padding is skipped unread.
readSignature(buf, off, signatureType, signatureSize) ==
    IF Throws(signatureSize) THEN Fail(signatureSize.throws, off + 4)
    ELSE Ok([signatureType |-> signatureType,
             signature |-> readBytes(buf, off + 4, signatureSize.SIGNATURE)],
            off + 4 + signatureSize.SIGNATURE + signatureSize.PADDING)

parseSignatureAt(buf, off) ==
    IF ~CanReadInt(buf, off, 4) THEN Fail("RangeError", off + 4)
    ELSE readSignature(buf, off, readUInt32BE(buf, off),
                       getSignatureSize(readUInt32BE(buf, off)))

(***************************************************************************)
(* Certificate (src/src/certificate.ts)                                    *)
(***************************************************************************)
KeyTypes == [RSA_4096 |-> 0, RSA_2048 |-> 1, ECDSA_233R1 |-> 2]

Certificate_parseSignature(buf, off) == parseSignatureAt(buf, off)

\* A key-length table whose default branch reads no key bytes instead of
\* throwing.
PublicKeyLengthDefaultEmpty(keyType) ==
    IF keyType = 0 THEN 568 ELSE IF keyType = 1 THEN 312
    ELSE IF keyType = 2 THEN 120 ELSE 0

\* readPublicKeyData: the number of bytes requested for the key type; the
\* default branch throws.
PublicKeyLength(keyType) ==
    CASE keyType = KeyTypes.RSA_4096    -> 512 + 4 + 52
      [] keyType = KeyTypes.RSA_2048    -> 256 + 4 + 52
      [] keyType = KeyTypes.ECDSA_233R1 -> 60 + 60
      [] OTHER -> -1

Certificate_constructSignatureData(issuer, keyType, name, expiration, publicKeyData) ==
    LET b0 == Zeros(64 + 4 + 64 + 4)
        b1 == Write(b0, issuer, 0, 64)
        b2 == Copy(UInt32BEBytes(keyType), b1, 64)
        b3 == Write(b2, name, 68, 64)
        b4 == Copy(UInt32BEBytes(expiration), b3, 132)
    IN  b4 \o publicKeyData

\* Certificate.parse, the end: the key bytes are read (a short read is
\* kept as it is) and the signature body is built from the fields.
Certificate_readPublicKeyData(buf, off, c, length) ==
    IF length < 0 THEN Fail("UnknownKeyType", off)
    ELSE Ok([signatureType |-> c.signatureType,
             signature |-> c.signature,
             issuer |-> c.issuer,
             keyType |-> c.keyType,
             name |-> c.name,
             expiration |-> c.expiration,
             publicKeyData |-> readBytes(buf, off, length),
             signatureBody |->
                 Certificate_constructSignatureData(
                     c.issuer, c.keyType, c.name, c.expiration,
                     readBytes(buf, off, length))],
            off + length)

\* Certificate.parse after parseSignature, the cursor at o1: issuer, key
\* type, name, expiration.
Certificate_parseFields(buf, sig, o1) ==
    IF ~CanReadInt(buf, o1 + 64, 4) THEN Fail("RangeError", o1 + 68)
    ELSE IF ~CanReadInt(buf, o1 + 132, 4) THEN Fail("RangeError", o1 + 136)
    ELSE Certificate_readPublicKeyData(buf, o1 + 136,
             [signatureType |-> sig.signatureType,
              signature |-> sig.signature,
              issuer |-> readName(buf, o1),
              keyType |-> readUInt32BE(buf, o1 + 64),
              name |-> readName(buf, o1 + 68),
              expiration |-> readUInt32BE(buf, o1 + 132)],
             PublicKeyLength(readUInt32BE(buf, o1 + 64)))

Certificate_afterSignature(buf, sig) ==
    IF sig.err # "" THEN sig ELSE Certificate_parseFields(buf, sig.val, sig.off)

\* Certificate.parse on the stream (buf, off); off is the cursor it starts
\* at and the result carries the cursor it leaves.
Certificate_parse(buf, off) ==
    Certificate_afterSignature(buf, Certificate_parseSignature(buf, off))

Certificate_size(c) ==
    4 + getSignatureSize(c.signatureType).TOTAL + 64 + 4 + 64 + 4
      + Len(c.publicKeyData)

\* An encoder that serialises the current field values, as Ticket.bytes()
\* and TMD.bytes() do.
Certificate_bytesFromFields(c) ==
    LET b0 == Zeros(Certificate_size(c))
        dataOffset == 4 + getSignatureSize(c.signatureType).TOTAL
        b1 == Copy(UInt32BEBytes(c.signatureType), b0, 0)
        b2 == Copy(c.signature, b1, 4)
    IN  Copy(Certificate_constructSignatureData(
                 c.issuer, c.keyType, c.name, c.expiration, c.publicKeyData),
             b2, dataOffset)

\* Certificate.bytes(): never throws for a parsed certificate.
Certificate_bytes(c) ==
    LET b0 == Zeros(Certificate_size(c))
        dataOffset == 4 + getSignatureSize(c.signatureType).TOTAL
        b1 == Copy(UInt32BEBytes(c.signatureType), b0, 0)
        b2 == Copy(c.signature, b1, 4)
    IN  Copy(c.signatureBody, b2, dataOffset)

\* exportKey(): the switch on keyType, whose default branch throws.  The
\* PEM is carried as the parts the three helpers cut from publicKeyData:
\* modulus and exponent, or the point behind the 0x04 marker.  The key
\* import of the library either takes those parts or throws (keyAccepted).
Certificate_exportKey(c, keyAccepted) ==
    IF c.keyType \notin {KeyTypes.RSA_4096, KeyTypes.RSA_2048, KeyTypes.ECDSA_233R1}
    THEN [throws |-> "UnknownKeyType"]
    ELSE IF ~keyAccepted THEN [throws |-> "KeyImportError"]
    ELSE CASE c.keyType = KeyTypes.RSA_4096 ->
                [pem |-> [n |-> readBytes(c.publicKeyData, 0, 512),
                          e |-> readBytes(c.publicKeyData, 512, 4)]]
           [] c.keyType = KeyTypes.RSA_2048 ->
                [pem |-> [n |-> readBytes(c.publicKeyData, 0, 256),
                          e |-> readBytes(c.publicKeyData, 256, 4)]]
           [] OTHER ->
                [pem |-> [point |-> <<4>> \o readBytes(c.publicKeyData, 0, 60)]]

\* verifySignature(signedData): the RSA and the ECDSA helper both export
\* the key first and then hand signature and signatureBody to the library,
\* whose verdict is `matches`; after the switch, `return false`.
Certificate_verifySignature(c, keyAccepted, matches) ==
    IF c.keyType \in {KeyTypes.RSA_4096, KeyTypes.RSA_2048, KeyTypes.ECDSA_233R1}
    THEN IF Throws(Certificate_exportKey(c, keyAccepted))
         THEN Certificate_exportKey(c, keyAccepted)
         ELSE [returns |-> matches]
    ELSE [returns |-> FALSE]

(***************************************************************************)
(* Ticket (ticket.ts)                                                      *)
(***************************************************************************)
Ticket_parseSignature(buf, off) == parseSignatureAt(buf, off)

\* The field writes shared by Ticket.bytes() (at dataOffset) and
\* Ticket.constructSignatureData() (at 0), in source order.  The issuer is
\* written without a length limit; whatever it spills past 0x40 is
\* overwritten by the fields that follow.
Ticket_writeFields(buf, t, d) ==
    CopyAll(<<<<d, Utf8Fit(t.issuer, Len(buf) - d)>>,
              <<d + 64, t.publicECCKey>>,
              <<d + 124, <<t.version>>>>,
              <<d + 125, <<t.caVersion>>>>,
              <<d + 126, <<t.signerVersion>>>>,
              <<d + 127, t.encryptedTitleKey>>,
              <<d + 143, <<t.reserved1>>>>,
              <<d + 144, BigUInt64BEBytes(t.ticketID)>>,
              <<d + 152, UInt32BEBytes(t.consoleID)>>,
              <<d + 156, BigUInt64BEBytes(t.titleID)>>,
              <<d + 164, UInt16BEBytes(t.reserved2)>>,
              <<d + 166, UInt16BEBytes(t.titleVersion)>>,
              <<d + 168, BigUInt64BEBytes(t.reserved3)>>,
              <<d + 176, <<t.licenseType>>>>,
              <<d + 177, <<t.commonKeyYIndex>>>>,
              <<d + 178, t.reserved4>>,
              <<d + 220, UInt32BEBytes(t.eShopAccountID)>>,
              <<d + 224, <<t.reserved5>>>>,
              <<d + 225, <<t.audit>>>>,
              <<d + 226, t.reserved6>>,
              <<d + 292, t.limits>>,
              <<d + 356, t.contentIndex>>>>, buf)

\* writeBigUInt64BE throws for any of the three 64-bit fields below zero.
Ticket_canWriteFields(t) ==
    /\ CanWriteBigUInt64(t.ticketID)
    /\ CanWriteBigUInt64(t.titleID)
    /\ CanWriteBigUInt64(t.reserved3)

Ticket_constructSignatureData(t) ==
    Ticket_writeFields(Zeros(356 + Len(t.contentIndex)), t, 0)

\* A parse that skips back once only, to the length field.
Ticket_contentIndexStartOneSkip(p) == p + 4 + 4 - 4

\* A parse that starts 8 bytes before the position of the length field.
Ticket_contentIndexStartBeforeUnknown(p) == (p + 4) - 8

\* Where the contentIndex read starts, given the cursor p after `limits`:
\* skip(0x4), readUInt32BE (p + 8), skip(-0x4), skip(-0x4).
Ticket_contentIndexStart(p) == p + 4 + 4 - 4 - 4

\* Ticket.parse, the end: constructSignatureData() runs on the parsed
\* fields and throws where writeBigUInt64BE does.
Ticket_parseEnd(t, off) ==
    IF ~Ticket_canWriteFields(t) THEN Fail("RangeError", off)
    ELSE Ok([t EXCEPT !.signatureBody = Ticket_constructSignatureData(t)], off)

Ticket_afterCACertificate(t, ca, off) ==
    IF ca.err # "" THEN Fail(ca.err, off)
    ELSE Ticket_parseEnd([t EXCEPT !.CACertificate = ca.val], off)

Ticket_afterSelfCertificate(buf, t, self, off) ==
    IF self.err # "" THEN Fail(self.err, off)
    ELSE Ticket_afterCACertificate([t EXCEPT !.selfCertificate = self.val],
                                   Certificate_parse(buf, 0), off)

\* `if (this.stream.remaining() !== 0)`: two `new Certificate(this.stream)`.
\* The stream is a Stream and not a FileStream, so the Certificate
\* constructor wraps it in a new FileStream: the same buffer under a cursor
\* of its own that starts at 0.  The cursor of this parse stays at `off`.
Ticket_parseCertificates(buf, t, off) ==
    IF remaining(buf, off) # 0
    THEN Ticket_afterSelfCertificate(buf, t, Certificate_parse(buf, 0), off)
    ELSE Ticket_parseEnd(t, off)

\* The contentIndex read: contentIndexSize bytes from the start position.
Ticket_readContentIndex(buf, t, start, contentIndexSize) ==
    Ticket_parseCertificates(
        buf,
        [t EXCEPT !.contentIndex = readBytes(buf, start, contentIndexSize)],
        start + contentIndexSize)

\* The fields from issuer to limits, the cursor at d after parseSignature.
Ticket_readFields(buf, sig, d) ==
    [signatureType |-> sig.signatureType,
     signature |-> sig.signature,
     issuer |-> readName(buf, d),
     publicECCKey |-> readBytes(buf, d + 64, 60),
     version |-> readUInt8(buf, d + 124),
     caVersion |-> readUInt8(buf, d + 125),
     signerVersion |-> readUInt8(buf, d + 126),
     encryptedTitleKey |-> readBytes(buf, d + 127, 16),
     reserved1 |-> readUInt8(buf, d + 143),
     ticketID |-> readUInt64BE(buf, d + 144),
     consoleID |-> readUInt32BE(buf, d + 152),
     titleID |-> readUInt64BE(buf, d + 156),
     reserved2 |-> readUInt16BE(buf, d + 164),
     titleVersion |-> readUInt16BE(buf, d + 166),
     reserved3 |-> readUInt64BE(buf, d + 168),
     licenseType |-> readUInt8(buf, d + 176),
     commonKeyYIndex |-> readUInt8(buf, d + 177),
     reserved4 |-> readBytes(buf, d + 178, 42),
     eShopAccountID |-> readUInt32BE(buf, d + 220),
     reserved5 |-> readUInt8(buf, d + 224),
     audit |-> readUInt8(buf, d + 225),
     reserved6 |-> readBytes(buf, d + 226, 66),
     limits |-> readBytes(buf, d + 292, 64),
     contentIndex |-> Null,
     selfCertificate |-> Null,
     CACertificate |-> Null,
     signatureBody |-> Null]

\* Ticket.parse after parseSignature.  The fields are one contiguous run of
\* reads whose last integer read is contentIndexSize at p + 4, p being the
\* cursor after `limits`: it is in bounds exactly when every integer read
\* before it is.
Ticket_afterSignature(buf, sig, p) ==
    IF sig.err # "" THEN sig
    ELSE IF ~CanReadInt(buf, p + 4, 4) THEN Fail("RangeError", p + 8)
    ELSE Ticket_readContentIndex(buf, Ticket_readFields(buf, sig.val, sig.off),
                                 Ticket_contentIndexStart(p),
                                 readUInt32BE(buf, p + 4))

Ticket_parse(buf, off) ==
    Ticket_afterSignature(buf, Ticket_parseSignature(buf, off),
                          Ticket_parseSignature(buf, off).off + 356)

Ticket_size(t) ==
    4 + getSignatureSize(t.signatureType).TOTAL
      + 64 + 60 + 1 + 1 + 1 + 16 + 1 + 8 + 4 + 8 + 2 + 2 + 8 + 1 + 1 + 42
      + 4 + 1 + 1 + 66 + 64
      + Len(t.contentIndex)
      + (IF t.selfCertificate # Null THEN Certificate_size(t.selfCertificate) ELSE 0)
      + (IF t.CACertificate # Null THEN Certificate_size(t.CACertificate) ELSE 0)

\* Ticket.bytes(): [err, val]; it throws where writeBigUInt64BE does.
Ticket_bytes(t) ==
    IF ~Ticket_canWriteFields(t) THEN [err |-> "RangeError", val |-> <<>>]
    ELSE
    LET dataOffset == 4 + getSignatureSize(t.signatureType).TOTAL
        b0 == Zeros(Ticket_size(t))
        b1 == Copy(UInt32BEBytes(t.signatureType), b0, 0)
        b2 == Copy(t.signature, b1, 4)
        b3 == Ticket_writeFields(b2, t, dataOffset)
        o1 == dataOffset + 356 + Len(t.contentIndex)
        b4 == IF t.selfCertificate # Null
              THEN Copy(Certificate_bytes(t.selfCertificate), b3, o1) ELSE b3
        o2 == IF t.selfCertificate # Null
              THEN o1 + Certificate_size(t.selfCertificate) ELSE o1
        b5 == IF t.CACertificate # Null
              THEN Copy(Certificate_bytes(t.CACertificate), b4, o2) ELSE b4
    IN  [err |-> "", val |-> b5]

(***************************************************************************)
(* TMD (src/src/tmd.ts)                                                    *)
(***************************************************************************)
TMD_parseSignature(buf, off) == parseSignatureAt(buf, off)

InfoRecordCount == 64

\* A loop that reads n records and keeps all but the last.
TMD_readInfoRecordsDropLast(buf, off, n) ==
    IF \E i \in 1..n : ~CanReadInt(buf, off + 36 * (i - 1) + 2, 2)
    THEN Fail("RangeError", off + 4)
    ELSE Ok(SubSeq([i \in 1..n |->
                       [offset |-> readUInt16BE(buf, off + 36 * (i - 1)),
                        count |-> readUInt16BE(buf, off + 36 * (i - 1) + 2),
                        recordsHash |-> readBytes(buf, off + 36 * (i - 1) + 4, 32)]],
                   1, n - 1),
            off + 36 * n)

\* The loop `for (i = 0; i < 64; i++)` of TMD.parse, n records left.
TMD_readInfoRecords(buf, off, n) ==
    LET at(i) == off + 36 * (i - 1)
        short == {i \in 1..n : ~CanReadInt(buf, at(i) + 2, 2)}
    IN  IF short # {}
        THEN LET i == CHOOSE k \in short : \A j \in short : k <= j
             IN  Fail("RangeError",
                      at(i) + (IF CanReadInt(buf, at(i), 2) THEN 4 ELSE 2))
        ELSE Ok(SubSeq([i \in 1..n |->
                           [offset |-> readUInt16BE(buf, at(i)),
                            count |-> readUInt16BE(buf, at(i) + 2),
                            recordsHash |-> readBytes(buf, at(i) + 4, 32)]],
                       1, n),
                off + 36 * n)

\* The loop `for (i = 0; i < this.contentCount; i++)` of TMD.parse.  The
\* last integer read of a record is `size` at +8.
TMD_readChunkRecords(buf, off, n) ==
    LET at(i) == off + 48 * (i - 1)
        short == {i \in 1..n : ~CanReadInt(buf, at(i) + 8, 8)}
    IN  IF short # {}
        THEN LET i == CHOOSE k \in short : \A j \in short : k <= j
             IN  Fail("RangeError",
                      at(i) + (IF ~CanReadInt(buf, at(i), 4) THEN 4
                               ELSE IF ~CanReadInt(buf, at(i) + 4, 2) THEN 6
                               ELSE IF ~CanReadInt(buf, at(i) + 6, 2) THEN 8
                               ELSE 16))
        ELSE Ok(SubSeq([i \in 1..n |->
                           [id |-> readUInt32BE(buf, at(i)),
                            index |-> readUInt16BE(buf, at(i) + 4),
                            type |-> readUInt16BE(buf, at(i) + 6),
                            size |-> readUInt64BE(buf, at(i) + 8),
                            hash |-> readBytes(buf, at(i) + 16, 32)]],
                       1, n),
                off + 48 * n)

\* The preamble writes shared by TMD.bytes() (at dataOffset) and
\* TMD.constructSignatureData() (at 0), in source order.
TMD_writeFields(buf, t, d) ==
    CopyAll(<<<<d, Utf8Fit(t.issuer, Len(buf) - d)>>,
              <<d + 64, <<t.version>>>>,
              <<d + 65, <<t.caVersion>>>>,
              <<d + 66, <<t.signerVersion>>>>,
              <<d + 67, <<t.reserved1>>>>,
              <<d + 68, BigUInt64BEBytes(t.systemVersion)>>,
              <<d + 76, BigUInt64BEBytes(t.titleID)>>,
              <<d + 84, UInt32BEBytes(t.titleType)>>,
              <<d + 88, UInt16BEBytes(t.groupID)>>,
              <<d + 90, UInt32BEBytes(t.saveDataSize)>>,
              <<d + 94, UInt32BEBytes(t.SRLPrivateSaveDataSize)>>,
              <<d + 98, UInt32BEBytes(t.reserved2)>>,
              <<d + 102, <<t.SRLFlag>>>>,
              <<d + 103, t.reserved3>>,
              <<d + 152, UInt32BEBytes(t.accessRights)>>,
              <<d + 156, UInt16BEBytes(t.titleVersion)>>,
              <<d + 158, UInt16BEBytes(t.contentCount)>>,
              <<d + 160, UInt16BEBytes(t.bootIndex)>>,
              <<d + 162, UInt16BEBytes(t.minorVersion)>>>>, buf)

TMD_canWriteFields(t) ==
    CanWriteBigUInt64(t.systemVersion) /\ CanWriteBigUInt64(t.titleID)

TMD_constructSignatureData(t) ==
    LET size == 164 + (IF t.version = 1 THEN 32 ELSE 0)
        b == TMD_writeFields(Zeros(size), t, 0)
    IN  IF t.version = 1 THEN Copy(t.contentInfoRecordsHash, b, 164) ELSE b

\* TMD.parse, the end: constructSignatureData() runs on the parsed fields
\* and throws where writeBigUInt64BE does.
TMD_parseEnd(t, off) ==
    IF ~TMD_canWriteFields(t) THEN Fail("RangeError", off)
    ELSE Ok([t EXCEPT !.signatureBody = TMD_constructSignatureData(t)], off)

TMD_afterCACertificate(t, ca, off) ==
    IF ca.err # "" THEN Fail(ca.err, off)
    ELSE TMD_parseEnd([t EXCEPT !.CACertificate = ca.val], off)

TMD_afterSelfCertificate(buf, t, self, off) ==
    IF self.err # "" THEN Fail(self.err, off)
    ELSE TMD_afterCACertificate([t EXCEPT !.selfCertificate = self.val],
                                Certificate_parse(buf, 0), off)

\* `if (this.stream.remaining() !== 0)`: two `new Certificate(this.stream)`.
\* The stream is a Stream and not a FileStream, so the Certificate
\* constructor wraps it in a new FileStream: the same buffer under a cursor
\* of its own that starts at 0.  The cursor of this parse stays at `off`.
TMD_parseCertificates(buf, t, off) ==
    IF remaining(buf, off) # 0
    THEN TMD_afterSelfCertificate(buf, t, Certificate_parse(buf, 0), off)
    ELSE TMD_parseEnd(t, off)

TMD_afterChunkRecords(buf, t, chunks) ==
    IF chunks.err # "" THEN chunks
    ELSE TMD_parseCertificates(
             buf, [t EXCEPT !.contentChunkRecords = chunks.val], chunks.off)

TMD_afterInfoRecords(buf, t, info) ==
    IF info.err # "" THEN info
    ELSE TMD_afterChunkRecords(
             buf, [t EXCEPT !.contentInfoRecords = info.val],
             TMD_readChunkRecords(buf, info.off, t.contentCount))

\* A branch that reads the table for every version up to 1.
TMD_parseInfoRecordsUpToOne(buf, t, off) ==
    IF t.version <= 1
    THEN TMD_afterInfoRecords(
             buf, [t EXCEPT !.contentInfoRecordsHash = readBytes(buf, off, 32)],
             TMD_readInfoRecords(buf, off + 32, InfoRecordCount))
    ELSE TMD_afterInfoRecords(buf, t, Ok(Null, off))

\* `if (this.version === 1)`: the hash and the 64 records, or nothing.
TMD_parseInfoRecords(buf, t, off) ==
    IF t.version = 1
    THEN TMD_afterInfoRecords(
             buf, [t EXCEPT !.contentInfoRecordsHash = readBytes(buf, off, 32)],
             TMD_readInfoRecords(buf, off + 32, InfoRecordCount))
    ELSE TMD_afterInfoRecords(buf, t, Ok(Null, off))

\* The fields from issuer to minorVersion, the cursor at d after
\* parseSignature.
TMD_readFields(buf, sig, d) ==
    [signatureType |-> sig.signatureType,
     signature |-> sig.signature,
     issuer |-> readName(buf, d),
     version |-> readUInt8(buf, d + 64),
     caVersion |-> readUInt8(buf, d + 65),
     signerVersion |-> readUInt8(buf, d + 66),
     reserved1 |-> readUInt8(buf, d + 67),
     systemVersion |-> readUInt64BE(buf, d + 68),
     titleID |-> readUInt64BE(buf, d + 76),
     titleType |-> readUInt32BE(buf, d + 84),
     groupID |-> readUInt16BE(buf, d + 88),
     saveDataSize |-> readUInt32BE(buf, d + 90),
     SRLPrivateSaveDataSize |-> readUInt32BE(buf, d + 94),
     reserved2 |-> readUInt32BE(buf, d + 98),
     SRLFlag |-> readUInt8(buf, d + 102),
     reserved3 |-> readBytes(buf, d + 103, 49),
     accessRights |-> readUInt32BE(buf, d + 152),
     titleVersion |-> readUInt16BE(buf, d + 156),
     contentCount |-> readUInt16BE(buf, d + 158),
     bootIndex |-> readUInt16BE(buf, d + 160),
     minorVersion |-> readUInt16BE(buf, d + 162),
     contentInfoRecordsHash |-> Null,
     contentInfoRecords |-> Null,
     contentChunkRecords |-> <<>>,
     selfCertificate |-> Null,
     CACertificate |-> Null,
     signatureBody |-> Null]

\* TMD.parse after parseSignature.  The preamble's last integer read is
\* minorVersion at d + 0xA2.
TMD_afterSignature(buf, sig) ==
    IF sig.err # "" THEN sig
    ELSE IF ~CanReadInt(buf, sig.off + 162, 2) THEN Fail("RangeError", sig.off + 164)
    ELSE TMD_parseInfoRecords(buf, TMD_readFields(buf, sig.val, sig.off),
                              sig.off + 164)

TMD_parse(buf, off) == TMD_afterSignature(buf, TMD_parseSignature(buf, off))

TMD_size(t) ==
    4 + getSignatureSize(t.signatureType).TOTAL
      + 64 + 1 + 1 + 1 + 1 + 8 + 8 + 4 + 2 + 4 + 4 + 4 + 1 + 49 + 4 + 2 + 2 + 2 + 2
      + (IF t.version = 1 THEN 32 + (2 + 2 + 32) * 64 ELSE 0)
      + (4 + 2 + 2 + 8 + 32) * t.contentCount
      + (IF t.selfCertificate # Null THEN Certificate_size(t.selfCertificate) ELSE 0)
      + (IF t.CACertificate # Null THEN Certificate_size(t.CACertificate) ELSE 0)

\* The loops of TMD.bytes() over contentInfoRecords / contentChunkRecords.
\* Each round writes into its own 36- (48-) byte window of the buffer, one
\* window after the other: the windows with their writes applied, joined,
\* are what the loop leaves in bytes[off .. off + 36 * n).
TMD_infoRecordWindow(buf, r, at) ==
    Copy(r.recordsHash,
         Copy(UInt16BEBytes(r.count),
              Copy(UInt16BEBytes(r.offset), Subarray(buf, at, at + 36), 0), 2), 4)

TMD_chunkRecordWindow(buf, r, at) ==
    Copy(r.hash,
         Copy(BigUInt64BEBytes(r.size),
              Copy(UInt16BEBytes(r.type),
                   Copy(UInt16BEBytes(r.index),
                        Copy(UInt32BEBytes(r.id), Subarray(buf, at, at + 48), 0),
                        4), 6), 8), 16)

\* n windows of `width` bytes each, joined.
JoinWindows(windows, width) ==
    SubSeq([j \in 1..(width * Len(windows)) |->
               windows[((j - 1) \div width) + 1][((j - 1) % width) + 1]],
           1, width * Len(windows))

TMD_writeInfoRecords(buf, records, off) ==
    Copy(JoinWindows(
             SubSeq([i \in 1..Len(records) |->
                        TMD_infoRecordWindow(buf, records[i], off + 36 * (i - 1))],
                    1, Len(records)), 36),
         buf, off)

TMD_writeChunkRecords(buf, records, off) ==
    Copy(JoinWindows(
             SubSeq([i \in 1..Len(records) |->
                        TMD_chunkRecordWindow(buf, records[i], off + 48 * (i - 1))],
                    1, Len(records)), 48),
         buf, off)

\* TMD.bytes(): [err, val]; it throws where writeBigUInt64BE does.
TMD_bytes(t) ==
    IF \/ ~TMD_canWriteFields(t)
       \/ \E i \in 1..Len(t.contentChunkRecords) :
             ~CanWriteBigUInt64(t.contentChunkRecords[i].size)
    THEN [err |-> "RangeError", val |-> <<>>]
    ELSE
    LET dataOffset == 4 + getSignatureSize(t.signatureType).TOTAL
        b0 == Zeros(TMD_size(t))
        b1 == Copy(UInt32BEBytes(t.signatureType), b0, 0)
        b2 == Copy(t.signature, b1, 4)
        b3 == TMD_writeFields(b2, t, dataOffset)
        o1 == dataOffset + 164
        b4 == IF t.version = 1
              THEN TMD_writeInfoRecords(
                       Copy(t.contentInfoRecordsHash, b3, o1),
                       t.contentInfoRecords, o1 + 32)
              ELSE b3
        o2 == IF t.version = 1 THEN o1 + 32 + 36 * Len(t.contentInfoRecords) ELSE o1
        b5 == TMD_writeChunkRecords(b4, t.contentChunkRecords, o2)
        o3 == o2 + 48 * Len(t.contentChunkRecords)
        b6 == IF t.selfCertificate # Null
              THEN Copy(Certificate_bytes(t.selfCertificate), b5, o3) ELSE b5
        o4 == IF t.selfCertificate # Null
              THEN o3 + Certificate_size(t.selfCertificate) ELSE o3
        b7 == IF t.CACertificate # Null
              THEN Copy(Certificate_bytes(t.CACertificate), b6, o4) ELSE b6
    IN  [err |-> "", val |-> b7]

(***************************************************************************)
(* SMDH (src/src/smdh.ts), as the CIA meta block uses it: the magic check, *)
(* the span of the cursor and the raw bytes.  Its last integer read is     *)
(* reserved2 at 0x2038; the two icons after it are plain byte reads.       *)
(***************************************************************************)
SMDH_MAGIC == <<83, 77, 68, 72>>

SMDH_parse(buf, off) ==
    IF Utf8Decode(readBytes(buf, off, 4)) # SMDH_MAGIC THEN Fail("InvalidSMDH", off + 4)
    ELSE IF ~CanReadInt(buf, off + 8248, 8) THEN Fail("RangeError", off + 8256)
    ELSE Ok([raw |-> readBytes(buf, off, 8256 + 1152 + 4608)],
            off + 8256 + 1152 + 4608)

(***************************************************************************)
(* CIA (src/src/cia.ts)                                                    *)
(***************************************************************************)
BLOCK_SIZE == 64

CIA_HEADER_SIZE == 8224

CIA_CONTENT_INDEX_SIZE == 8192

\* `this` before parse() has run: only `contents` is initialised.
CIA_new ==
    [type |-> Null, version |-> Null, certificateChainSize |-> Null,
     ticketSize |-> Null, TMDSize |-> Null, metaSize |-> Null,
     contentSize |-> Null, contentIndex |-> Null,
     CACertificate |-> Null, ticketCertificate |-> Null, TMDCertificate |-> Null,
     ticket |-> Null, TMD |-> Null, encryptedContents |-> Null,
     contents |-> <<>>, meta |-> Null]

\* The inner loop of parseContentIndex: `for (j = 7; j != -1; j--)` with
\* `current & 1` tested and `current >> 1` after each round.
\* A decoder that numbers the bits of a byte from the least significant one.
CIA_byteActiveLsbFirst(current, j, base) ==
    {base + v : v \in {w \in 0..7 : (current \div (2 ^ w)) % 2 = 1}}

RECURSIVE CIA_byteActive(_, _, _)
CIA_byteActive(current, j, base) ==
    IF j = -1 THEN {}
    ELSE (IF current % 2 = 1 THEN {j + base} ELSE {})
         \cup CIA_byteActive(current \div 2, j - 1, base)

\* activeContents: the outer loop over the bytes of contentIndex.  A zero
\* byte contributes no index, whatever its position.
CIA_activeContents(contentIndex) ==
    UNION {CIA_byteActive(contentIndex[i + 1], 7, i * 8) :
              i \in {k \in 0..(Len(contentIndex) - 1) : contentIndex[k + 1] # 0}}

\* A filter that keeps every TMD index, active or not.
CIA_allTMDContents(activeContents, records) ==
    {records[k].index : k \in 1..Len(records)}

\* activeTMDContents: the indices of TMD records that are active.
CIA_activeTMDContents(activeContents, records) ==
    {records[k].index :
        k \in {j \in 1..Len(records) : records[j].index \in activeContents}}

\* The slicing loop over a fresh stream on encryptedContents.
RECURSIVE CIA_sliceContents(_, _, _)
CIA_sliceContents(contents, off, records) ==
    IF records = <<>> THEN <<>>
    ELSE LET n == ToNumber(Head(records).size)
         IN  <<[id |-> Head(records).id, data |-> readBytes(contents, off, n)]>>
             \o CIA_sliceContents(contents, off + n, Tail(records))

\* A dependency loop that reads each title ID big-endian.
CIA_readDependenciesBigEndian(buf, off, n) ==
    [k \in 1..n |-> readUInt64BE(buf, off + 8 * (k - 1))]

\* The dependency loop of the meta block: 0x180 / 8 little-endian reads.
RECURSIVE CIA_readDependencies(_, _, _)
CIA_readDependencies(buf, off, n) ==
    IF n = 0 THEN <<>>
    ELSE <<readUInt64LE(buf, off)>> \o CIA_readDependencies(buf, off + 8, n - 1)

Throw(e) ==
    /\ pc' = "failed"
    /\ err' = e

\* A header check that only rejects sizes below the expected one.
CIA_headerSizeAtLeast(headerSize) == headerSize >= CIA_HEADER_SIZE

\* `headerSize !== 0x2020` is false.
CIA_headerSizeValid(headerSize) == headerSize = CIA_HEADER_SIZE

\* parseHeader, lines 54-58: the header size and its check.
CIA_readHeaderSize ==
    /\ kind = "cia" /\ pc = "start"
    /\ offset' = offset + 4
    /\ IF ~CanReadInt(input, offset, 4) THEN Throw("RangeError")
       ELSE IF ~CIA_headerSizeValid(readUInt32LE(input, offset))
       THEN Throw("InvalidHeaderSize")
       ELSE pc' = "header" /\ err' = err
    /\ UNCHANGED <<kind, input, obj, missing, active, encoded, reparsed, ret, held, prior>>

\* parseHeader, lines 60-68: the header fields, the bitmap, the alignment.
\* contentSize at 0x18 is the last integer read.
CIA_readHeaderFields ==
    /\ kind = "cia" /\ pc = "header"
    /\ IF ~CanReadInt(input, offset + 20, 8)
       THEN /\ Throw("RangeError")
            /\ offset' = offset + 28
            /\ obj' = obj
       ELSE /\ pc' = "certificates"
            /\ err' = err
            /\ obj' = [obj EXCEPT
                  !.type = readUInt16LE(input, offset),
                  !.version = readUInt16LE(input, offset + 2),
                  !.certificateChainSize = readUInt32LE(input, offset + 4),
                  !.ticketSize = readUInt32LE(input, offset + 8),
                  !.TMDSize = readUInt32LE(input, offset + 12),
                  !.metaSize = readUInt32LE(input, offset + 16),
                  !.contentSize = readUInt64LE(input, offset + 20),
                  !.contentIndex = readBytes(input, offset + 28, CIA_CONTENT_INDEX_SIZE)]
            /\ offset' = alignBlock(offset + 28 + CIA_CONTENT_INDEX_SIZE, BLOCK_SIZE)
    /\ UNCHANGED <<kind, input, missing, active, encoded, reparsed, ret, held, prior>>

\* A constructor called by parseHeader threw: the error leaves parse(), the
\* cursor stays where the failed read left it, `o` is what was assigned.
CIA_stageThrows(r, off, o) ==
    /\ Throw(r.err)
    /\ offset' = off
    /\ obj' = o

\* A chain whose end is taken from the header's certificateChainSize.
CIA_afterTMDCertificateByChainSize(o, tmd) ==
    IF tmd.err # "" THEN CIA_stageThrows(tmd, tmd.off, o)
    ELSE /\ pc' = "ticket"
         /\ err' = err
         /\ offset' = alignBlock(8256 + o.certificateChainSize, BLOCK_SIZE)
         /\ obj' = [o EXCEPT !.TMDCertificate = tmd.val]

CIA_afterTMDCertificate(o, tmd) ==
    IF tmd.err # "" THEN CIA_stageThrows(tmd, tmd.off, o)
    ELSE /\ pc' = "ticket"
         /\ err' = err
         /\ offset' = alignBlock(tmd.off, BLOCK_SIZE)
         /\ obj' = [o EXCEPT !.TMDCertificate = tmd.val]

CIA_afterTicketCertificate(o, tik) ==
    IF tik.err # "" THEN CIA_stageThrows(tik, tik.off, o)
    ELSE CIA_afterTMDCertificate([o EXCEPT !.ticketCertificate = tik.val],
                                 Certificate_parse(input, tik.off))

CIA_afterCACertificate(o, ca) ==
    IF ca.err # "" THEN CIA_stageThrows(ca, ca.off, o)
    ELSE CIA_afterTicketCertificate([o EXCEPT !.CACertificate = ca.val],
                                    Certificate_parse(input, ca.off))

\* parseHeader, lines 70-73: the three certificates on the shared cursor.
CIA_parseCertificates ==
    /\ kind = "cia" /\ pc = "certificates"
    /\ CIA_afterCACertificate(obj, Certificate_parse(input, offset))
    /\ UNCHANGED <<kind, input, missing, active, encoded, reparsed, ret, held, prior>>

CIA_afterTicket(t) ==
    IF t.err # "" THEN CIA_stageThrows(t, offset + obj.ticketSize, obj)
    ELSE /\ pc' = "tmd"
         /\ err' = err
         /\ offset' = alignBlock(offset + obj.ticketSize, BLOCK_SIZE)
         /\ obj' = [obj EXCEPT !.ticket = t.val]

\* parseHeader, lines 77-78: the Ticket from its own slice.
CIA_parseTicket ==
    /\ kind = "cia" /\ pc = "ticket"
    /\ CIA_afterTicket(Ticket_parse(readBytes(input, offset, obj.ticketSize), 0))
    /\ UNCHANGED <<kind, input, missing, active, encoded, reparsed, ret, held, prior>>

CIA_afterTMD(t) ==
    IF t.err # "" THEN CIA_stageThrows(t, offset + obj.TMDSize, obj)
    ELSE /\ pc' = "content"
         /\ err' = err
         /\ offset' = alignBlock(offset + obj.TMDSize, BLOCK_SIZE)
         /\ obj' = [obj EXCEPT !.TMD = t.val]

\* parseHeader, lines 80-81: the TMD from its own slice.
CIA_parseTMD ==
    /\ kind = "cia" /\ pc = "tmd"
    /\ CIA_afterTMD(TMD_parse(readBytes(input, offset, obj.TMDSize), 0))
    /\ UNCHANGED <<kind, input, missing, active, encoded, reparsed, ret, held, prior>>

\* parseHeader, line 83: the content region, read verbatim.
CIA_readContents ==
    /\ kind = "cia" /\ pc = "content"
    /\ LET n == ToNumber(obj.contentSize)
       IN  /\ obj' = [obj EXCEPT !.encryptedContents = readBytes(input, offset, n)]
           /\ offset' = offset + n
    /\ pc' = IF obj.metaSize # 0 THEN "meta" ELSE "contentIndex"
    /\ UNCHANGED <<kind, input, err, missing, active, encoded, reparsed, ret, held, prior>>

CIA_afterIcon(icon) ==
    IF icon.err # "" THEN CIA_stageThrows(icon, icon.off, obj)
    ELSE /\ pc' = "contentIndex"
         /\ err' = err
         /\ offset' = icon.off
         /\ obj' = [obj EXCEPT !.meta =
               [dependencies |-> CIA_readDependencies(input, offset, 48),
                reserved1 |-> readBytes(input, offset + 384, 384),
                coreVersion |-> readUInt32LE(input, offset + 768),
                reserved2 |-> readBytes(input, offset + 772, 252),
                iconData |-> icon.val]]

\* parseHeader, lines 85-101: the meta block.  The last dependency is the
\* last integer read of the dependency loop.
CIA_parseMeta ==
    /\ kind = "cia" /\ pc = "meta"
    /\ IF ~CanReadInt(input, offset + 376, 8)
       THEN Throw("RangeError") /\ offset' = offset + 384 /\ obj' = obj
       ELSE IF ~CanReadInt(input, offset + 768, 4)
       THEN Throw("RangeError") /\ offset' = offset + 772 /\ obj' = obj
       ELSE CIA_afterIcon(SMDH_parse(input, offset + 772 + 252))
    /\ UNCHANGED <<kind, input, missing, active, encoded, reparsed, ret, held, prior>>

\* parseContentIndex, lines 122-141: the length check, then the slicing.
CIA_checkContentIndex(activeContents, activeTMDContents) ==
    IF Cardinality(activeTMDContents) < Cardinality(activeContents)
    THEN /\ Throw("ContentIndexMismatch")
         /\ missing' = Cardinality(activeContents) - Cardinality(activeTMDContents)
         /\ obj' = obj
    ELSE /\ pc' = "done"
         /\ err' = err
         /\ missing' = missing
         /\ obj' = [obj EXCEPT !.contents =
                CIA_sliceContents(obj.encryptedContents, 0,
                                  obj.TMD.contentChunkRecords)]

CIA_filterContents(activeContents) ==
    /\ active' = activeContents
    /\ CIA_checkContentIndex(
           activeContents,
           CIA_activeTMDContents(activeContents, obj.TMD.contentChunkRecords))

\* parseContentIndex (and the empty decryptContents after it).
CIA_parseContentIndex ==
    /\ kind = "cia" /\ pc = "contentIndex"
    /\ CIA_filterContents(CIA_activeContents(obj.contentIndex))
    /\ UNCHANGED <<kind, input, offset, encoded, reparsed, ret, held, prior>>

(***************************************************************************)
(* Inputs: byte buffers laid out field by field.                           *)
(***************************************************************************)
MaxRecords == 3

\* The cursor of the stream runs stays within -MaxOffset..MaxOffset.
MaxOffset == 6

SigCodeSpread == 30

LE16(v) == <<v % 256, v \div 256>>
LE32(v) == <<v % 256, (v \div 256) % 256, (v \div 65536) % 256, v \div 16777216>>
BE16(v) == <<v \div 256, v % 256>>
BE32(v) == <<v \div 16777216, (v \div 65536) % 256, (v \div 256) % 256, v % 256>>
\* A 64-bit field, most significant byte first: a small value, and values
\* with the top bit set.
U64Small(v) == <<0, 0, 0, 0>> \o BE32(v)
U64MinusOne == Repeat(255, 8)
U64TopBit == <<128, 0, 0, 0, 0, 0, 0, 1>>

Pad64(b) == b \o Zeros((64 - (Len(b) % 64)) % 64)
Truncate(b, n) == SubSeq(b, 1, Len(b) - n)

\* 64-byte name fields: NUL-padded ASCII, bytes after the first NUL,
\* no NUL at all, bytes that are not UTF-8.
NameFields ==
    [clean    |-> <<82, 111, 111, 116>> \o Zeros(60),
     dirty    |-> <<82, 111, 111, 116, 0, 88>> \o Zeros(58),
     full     |-> Repeat(65, 64),
     nonutf8  |-> Repeat(255, 64),
     few      |-> <<255, 255>> \o Zeros(62)]

SigLengths(signatureType) ==
    IF KnownSignatureType(signatureType)
    THEN LET z == getSignatureSize(signatureType) IN <<z.SIGNATURE, z.PADDING>>
    ELSE <<60, 64>>

SigHeader(signatureType, sigFill, padFill) ==
    BE32(signatureType)
      \o Repeat(sigFill, SigLengths(signatureType)[1])
      \o Repeat(padFill, SigLengths(signatureType)[2])

MkCertificate(signatureType, sigFill, padFill, issuer, keyType, name) ==
    SigHeader(signatureType, sigFill, padFill)
      \o NameFields[issuer] \o BE32(keyType) \o NameFields[name] \o BE32(7)
      \o [i \in 1..(IF keyType \in 0..2 THEN PublicKeyLength(keyType) ELSE 120) |->
            1 + (i % 250)]

TwoCertificates ==
    MkCertificate(65540, 9, 0, "clean", 2, "clean")
      \o MkCertificate(65539, 0, 0, "clean", 1, "clean")

\* The ticket preamble up to and including `limits`; the last four bytes of
\* `limits` differ from everything around them.
TicketPreamble(signatureType, padFill, issuer, eccKey, ticketID) ==
    SigHeader(signatureType, 5, padFill)
      \o NameFields[issuer] \o eccKey \o <<1, 2, 3>> \o Repeat(34, 16)
      \o <<4>> \o ticketID \o BE32(305419896) \o U64Small(262400)
      \o BE16(5) \o BE16(1040) \o U64Small(0) \o <<6, 7>> \o Repeat(8, 42)
      \o BE32(66) \o <<9, 10>> \o Repeat(11, 66)
      \o Repeat(51, 60) \o <<52, 53, 54, 55>>

ChunkRecord(id, index, size) ==
    BE32(id) \o BE16(index) \o BE16(1) \o size \o Repeat(id % 256, 32)

RecordIndex(pattern, k, n) ==
    CASE pattern = "asc" -> k
      [] pattern = "desc" -> n - 1 - k
      [] pattern = "dup" -> 0
      [] pattern = "shift" -> k + 1

\* n chunk records, k = 0..n-1: ids descending, sizes 3 + k, the last size
\* replaced by `lastSize` when that is not <<>>.
RECURSIVE ChunkRecords(_, _, _, _)
ChunkRecords(pattern, k, n, lastSize) ==
    IF k = n THEN <<>>
    ELSE ChunkRecord(32 - k, RecordIndex(pattern, k, n),
                     IF k = n - 1 /\ lastSize # <<>> THEN lastSize
                     ELSE U64Small(3 + k))
         \o ChunkRecords(pattern, k + 1, n, lastSize)

MkTMD(signatureType, padFill, issuer, version, tail, systemVersion, pattern, n, lastSize) ==
    SigHeader(signatureType, 6, padFill)
      \o NameFields[issuer] \o <<version>> \o tail \o systemVersion
      \o U64Small(262400) \o BE32(64) \o BE16(0) \o BE32(1) \o BE32(2) \o BE32(3)
      \o <<5>> \o Repeat(12, 49) \o BE32(13) \o BE16(1040) \o BE16(n)
      \o BE16(0) \o BE16(14)
      \o (IF version = 1 THEN Repeat(15, 32) \o [i \in 1..(36 * 64) |-> (i % 36) + 1]
          ELSE <<>>)
      \o ChunkRecords(pattern, 0, n, lastSize)

\* A ticket with a contentIndex of declared length n (n >= 8): unknown
\* field, length, then the rest.
MkTicket(signatureType, padFill, issuer, eccKey, ticketID, n) ==
    TicketPreamble(signatureType, padFill, issuer, eccKey, ticketID)
      \o <<0, 1, 0, 20>> \o BE32(n) \o [i \in 1..(n - 8) |-> 100 + i]

ContentBytes(n) == [i \in 1..n |-> 1 + (i % 200)]

MetaBlock ==
    [i \in 1..384 |-> IF i % 8 = 1 THEN 1 + (i \div 8) ELSE 0]
      \o Repeat(16, 384) \o LE32(2) \o Repeat(18, 252)
      \o SMDH_MAGIC \o Zeros(8252) \o Repeat(19, 1152 + 4608)

\* The 0x2000-byte bitmap, all zero but its first and last byte.
Bitmap(first, last) ==
    [i \in 1..CIA_CONTENT_INDEX_SIZE |->
        IF i = 1 THEN first ELSE IF i = CIA_CONTENT_INDEX_SIZE THEN last ELSE 0]

MkCIA(headerSize, first, last, ticket, tmd, contentSize, content, metaSize, meta) ==
    LE32(headerSize) \o LE16(0) \o LE16(0) \o LE32(2560)
      \o LE32(Len(ticket)) \o LE32(Len(tmd)) \o LE32(metaSize) \o Reverse(contentSize)
      \o Bitmap(first, last) \o Zeros(32)
      \o Pad64(MkCertificate(65539, 1, 0, "clean", 1, "clean")
               \o MkCertificate(65540, 2, 0, "clean", 1, "clean")
               \o MkCertificate(65540, 3, 0, "clean", 1, "clean"))
      \o Pad64(ticket) \o Pad64(tmd) \o content \o meta

SumSizes(n) == (n * (n + 5)) \div 2

CertificateInputs ==
    {MkCertificate(st, 1, 0, "clean", kt, "clean") : st \in 65536..65542, kt \in 0..3}
    \cup {Truncate(MkCertificate(65540, 1, pad, iss, kt, nm), cut) :
            pad \in {0, 255}, iss \in DOMAIN NameFields, nm \in {"clean", "dirty"},
            kt \in 0..2, cut \in {0, 1}}
    \cup {Truncate(MkCertificate(65540, 1, 0, "clean", 2, "clean"), 125), <<0, 1>>, <<>>}

TicketInputs ==
    {MkTicket(st, pad, iss, ecc, id, n) \o certs :
        st \in {65539, 65540, 65541}, pad \in {0, 255},
        ecc \in {Repeat(17, 60), <<0, 0, 0, 2>> \o Repeat(17, 56)},
        iss \in {"clean", "dirty", "nonutf8"}, id \in {U64Small(1), U64TopBit},
        n \in {8, 20}, certs \in {<<>>, TwoCertificates}}
    \cup {Truncate(MkTicket(65540, 0, "clean", Repeat(17, 60), U64Small(1), n) \o certs, 1) :
            n \in {8, 20}, certs \in {<<>>, TwoCertificates}}
    \cup {TicketPreamble(65540, 0, "clean", <<0, 0, 0, 2>> \o Repeat(17, 56), U64Small(1))
            \o MkCertificate(65540, 0, 0, "clean", 2, "clean")
            \o MkCertificate(65539, 0, 0, "clean", 1, "clean"),
          MkTicket(65542, 0, "clean", Repeat(17, 60), U64Small(1), 8),
          MkTicket(65540, 0, "clean", Repeat(17, 60), U64Small(1), 8)
            \o MkCertificate(65540, 9, 0, "clean", 2, "clean")}

TMDInputs ==
    {MkTMD(65540, pad, iss, ver, tail, U64Small(2), "asc", n, last) \o certs :
        pad \in {0, 255}, iss \in {"clean", "dirty"}, ver \in {0, 1, 2},
        tail \in {<<2, 3, 4>>, <<0, 0, 1>>},
        n \in 0..MaxRecords, last \in {<<>>, U64TopBit},
        certs \in {<<>>, TwoCertificates}}
    \cup {MkTMD(65541, 0, "nonutf8", ver, <<2, 3, 4>>, sv, "desc", 1, <<>>) :
            ver \in {0, 1}, sv \in {U64Small(2), U64MinusOne}}
    \cup {Truncate(MkTMD(65540, 0, "clean", ver, <<2, 3, 4>>, U64Small(2), "asc", n, <<>>), 1) :
            ver \in {0, 1}, n \in {0, 1}}
    \cup {MkTMD(65540, 0, "clean", 0, <<0, 0, 1>>, U64Small(2), "asc", 1, <<>>)
            \o TwoCertificates \o TwoCertificates}

NormalTicket == MkTicket(65540, 0, "clean", Repeat(17, 60), U64Small(1), 20)

CIAInputs ==
    {MkCIA(CIA_HEADER_SIZE, first, last, NormalTicket,
           MkTMD(65540, 0, "clean", 0, <<2, 3, 4>>, U64Small(2), pattern, n, <<>>),
           U64Small(SumSizes(n)), ContentBytes(SumSizes(n)), 0, <<>>) :
        first \in {0, 128, 192, 224, 240, 129}, last \in {0, 1},
        pattern \in {"asc", "desc", "dup", "shift"}, n \in 0..MaxRecords}
    \cup {MkCIA(hs, 224, 0, NormalTicket,
                MkTMD(65540, 0, "clean", 0, <<2, 3, 4>>, U64Small(2), "asc", 3, <<>>),
                U64Small(12), ContentBytes(12), 0, <<>>) :
            hs \in {0, 32, 8192, 8223, 8225, 538968064}}
    \cup {MkCIA(CIA_HEADER_SIZE, 224, 0, ticket,
                MkTMD(65540, 0, "clean", ver, <<2, 3, 4>>, U64Small(2), "asc", 3, last) \o certs,
                U64Small(declared), ContentBytes(actual), metaSize, meta) :
            ticket \in {NormalTicket, NormalTicket \o TwoCertificates},
            ver \in {0, 1}, last \in {<<>>, U64MinusOne},
            certs \in {<<>>, TwoCertificates},
            declared \in {0, 12, 16}, actual \in {12, 16},
            metaSize \in {0}, meta \in {<<>>}}
    \cup {MkCIA(CIA_HEADER_SIZE, 224, 0, NormalTicket,
                MkTMD(65540, 0, "clean", 0, <<2, 3, 4>>, U64Small(2), "asc", 3, <<>>),
                U64Small(12), ContentBytes(12), metaSize, meta) :
            metaSize \in {0, 1, 15040},
            meta \in {MetaBlock, Truncate(MetaBlock, 1), Truncate(MetaBlock, 6000),
                      Truncate(MetaBlock, 15000), Zeros(15040)}}
    \cup {MkCIA(CIA_HEADER_SIZE, 224, 0, NormalTicket,
                MkTMD(65540, 0, "clean", 0, <<2, 3, 4>>, U64Small(2), "asc", 3, <<>>),
                U64MinusOne, ContentBytes(12), 0, <<>>),
          Truncate(MkCIA(CIA_HEADER_SIZE, 224, 0, NormalTicket,
                         MkTMD(65540, 0, "clean", 0, <<2, 3, 4>>, U64Small(2), "asc", 3, <<>>),
                         U64Small(12), ContentBytes(12), 0, <<>>), 25)}
    \cup {<<32, 32, 0>>, LE32(CIA_HEADER_SIZE) \o Zeros(20),
          LE32(CIA_HEADER_SIZE) \o Zeros(28) \o Bitmap(128, 0),
          LE32(CIA_HEADER_SIZE) \o Zeros(28) \o Bitmap(128, 0) \o Zeros(32)
            \o MkCertificate(65539, 1, 0, "clean", 3, "clean")}

SignatureCodes ==
    {BE32(c) : c \in (SigTypeBase - SigCodeSpread)..(SigTypeBase + 5 + SigCodeSpread)}
    \cup {BE32(0), BE32(1), BE32(3)}

InitCommon ==
    /\ pc = "start"
    /\ offset = 0
    /\ err = ""
    /\ missing = 0
    /\ active = {}
    /\ encoded = <<>>
    /\ reparsed = Null
    /\ ret = Null
    /\ prior = Null

\* `new CIA(buffer)` parses inside the constructor; `new CIA()` followed by
\* cia.parseFromBuffer(buffer) parses an instance the caller already holds.
InitCIA ==
    /\ kind = "cia"
    /\ input \in CIAInputs
    /\ obj = CIA_new
    /\ held \in BOOLEAN
    /\ InitCommon

InitCodec ==
    /\ \/ kind = "certificate" /\ input \in CertificateInputs
       \/ kind = "ticket" /\ input \in TicketInputs
       \/ kind = "tmd" /\ input \in TMDInputs
    /\ obj = Null
    /\ held = FALSE
    /\ InitCommon

InitSig ==
    /\ kind = "signature"
    /\ input \in SignatureCodes
    /\ obj = Null
    /\ held = FALSE
    /\ InitCommon

\* new FileStream(path) on a file that holds `input` (openSync returns a
\* descriptor above the standard ones, fstatSync its size), next to
\* new FileStream(buffer) on a buffer with the same bytes; `offset` is the
\* cursor of the latter, obj the former.
InitStream ==
    /\ kind = "stream"
    /\ input \in {<<>>, <<7>>, <<7, 8, 9>>, <<1, 2, 3, 4, 5>>}
    /\ \E fd \in {3, 4} :
          obj = [fd |-> fd, fileSize |-> IF fd # 0 THEN Len(input) ELSE 0,
                 buffer |-> <<>>, offset |-> 0]
    /\ held = FALSE
    /\ InitCommon

\* What precedes an embedded structure in the outer stream: a certificate,
\* or as many zero bytes.
EmbeddedPrefix == MkCertificate(65540, 9, 0, "clean", 2, "clean")

\* new X(stream) on a stream whose cursor is behind the prefix: a
\* FileStream for a Certificate, a Stream for a Ticket or a TMD.
InitEmbedded ==
    /\ \E prefix \in {EmbeddedPrefix, Zeros(Len(EmbeddedPrefix))},
          suffix \in {<<>>, <<7>>, TwoCertificates}, cut \in {0, 1} :
          \/ /\ kind = "certificate"
             /\ \E st \in {65539, 65541}, kt \in 0..2 :
                   input = prefix \o Truncate(MkCertificate(st, 1, 0, "clean", kt, "clean"), cut)
                             \o suffix
          \/ /\ kind = "ticket"
             /\ \E st \in {65539, 65541}, n \in {8, 20} :
                   input = prefix
                             \o Truncate(MkTicket(st, 0, "clean", Repeat(17, 60), U64Small(1), n), cut)
                             \o suffix
          \/ /\ kind = "tmd"
             /\ \E ver \in {0, 1}, n \in 0..MaxRecords :
                   input = prefix
                             \o Truncate(MkTMD(65540, 0, "clean", ver, <<2, 3, 4>>, U64Small(2),
                                               "asc", n, <<>>), cut)
                             \o suffix
    /\ pc = "start"
    /\ offset = Len(EmbeddedPrefix)
    /\ obj = Null
    /\ err = ""
    /\ missing = 0
    /\ active = {}
    /\ encoded = <<>>
    /\ reparsed = Null
    /\ ret = Null
    /\ prior = Null
    /\ held = FALSE

(***************************************************************************)
(* The standalone entry points: new X(buffer), x.bytes(), new X(x.bytes()) *)
(***************************************************************************)
Construct(r) ==
    /\ offset' = r.off
    /\ obj' = r.val
    /\ IF r.err # "" THEN Throw(r.err) ELSE pc' = "parsed" /\ err' = err
    /\ UNCHANGED <<kind, input, missing, active, encoded, reparsed, ret, held, prior>>

Certificate_constructor ==
    /\ kind = "certificate" /\ pc = "start"
    /\ Construct(Certificate_parse(input, offset))

Ticket_constructor ==
    /\ kind = "ticket" /\ pc = "start"
    /\ Construct(Ticket_parse(input, offset))

TMD_constructor ==
    /\ kind = "tmd" /\ pc = "start"
    /\ Construct(TMD_parse(input, offset))

\* bytes() returned or threw; a call made after a field assignment is told
\* apart from one made on the structure as parsed.
Encode(e) ==
    /\ encoded' = e.val
    /\ IF e.err # ""
       THEN /\ pc' = IF pc = "assigned" THEN "assignedEncodeFailed" ELSE "encodeFailed"
            /\ err' = e.err
       ELSE /\ pc' = IF pc = "assigned" THEN "assignedEncoded" ELSE "encoded"
            /\ err' = err
    /\ UNCHANGED <<kind, input, offset, obj, missing, active, reparsed, ret, held, prior>>

Certificate_callBytes ==
    /\ kind = "certificate" /\ pc \in {"parsed", "assigned"}
    /\ Encode([err |-> "", val |-> Certificate_bytes(obj)])

Ticket_callBytes ==
    /\ kind = "ticket" /\ pc \in {"parsed", "assigned"}
    /\ Encode(Ticket_bytes(obj))

TMD_callBytes ==
    /\ kind = "tmd" /\ pc \in {"parsed", "assigned"}
    /\ Encode(TMD_bytes(obj))

\* certificate.keyType = v, on a parsed certificate.
Certificate_assignKeyType ==
    /\ kind = "certificate" /\ pc = "parsed"
    /\ \E v \in {0, 1, 2, 3, 16777216} : obj' = [obj EXCEPT !.keyType = v]
    /\ pc' = "assigned"
    /\ UNCHANGED <<kind, input, offset, err, missing, active, encoded, reparsed, ret, held, prior>>

\* certificate.issuer = v, certificate.name = v or certificate.expiration = v,
\* on a parsed certificate.
Certificate_assignField ==
    /\ kind = "certificate" /\ pc = "parsed"
    /\ \E f \in {"issuer", "name", "expiration"} :
          obj' = CASE f = "issuer" -> [obj EXCEPT !.issuer = <<88, 83>>]
                   [] f = "name" -> [obj EXCEPT !.name = <<67, 80>>]
                   [] f = "expiration" -> [obj EXCEPT !.expiration = 9]
    /\ pc' = "assigned"
    /\ UNCHANGED <<kind, input, offset, err, missing, active, encoded, reparsed, ret, held, prior>>

\* ticket.titleVersion = v, on a parsed ticket.
Ticket_assignTitleVersion ==
    /\ kind = "ticket" /\ pc = "parsed"
    /\ \E v \in {7, 1040} : obj' = [obj EXCEPT !.titleVersion = v]
    /\ pc' = "assigned"
    /\ UNCHANGED <<kind, input, offset, err, missing, active, encoded, reparsed, ret, held, prior>>

\* tmd.titleVersion = v, on a parsed TMD.
TMD_assignTitleVersion ==
    /\ kind = "tmd" /\ pc = "parsed"
    /\ \E v \in {7, 1040} : obj' = [obj EXCEPT !.titleVersion = v]
    /\ pc' = "assigned"
    /\ UNCHANGED <<kind, input, offset, err, missing, active, encoded, reparsed, ret, held, prior>>

\* A method call on the certificate returned or threw.
Called(r, returned, threw) ==
    /\ ret' = r
    /\ IF Throws(r) THEN pc' = threw /\ err' = r.throws
       ELSE pc' = returned /\ err' = err
    /\ UNCHANGED <<kind, input, offset, obj, missing, active, encoded, reparsed, held, prior>>

\* certificate.exportKey()
Certificate_callExportKey ==
    /\ kind = "certificate" /\ pc \in {"parsed", "assigned"}
    /\ \E keyAccepted \in BOOLEAN :
          Called(Certificate_exportKey(obj, keyAccepted), "exported", "exportFailed")

\* certificate.verifySignature(signedData)
Certificate_callVerifySignature ==
    /\ kind = "certificate" /\ pc \in {"parsed", "assigned"}
    /\ \E keyAccepted \in BOOLEAN, matches \in BOOLEAN :
          Called([matches |-> matches] @@ Certificate_verifySignature(obj, keyAccepted, matches),
                 "verified", "verifyFailed")

\* The same call made on both streams; ret keeps the call and what read()
\* returned from each.
StreamCalled(op, length, fileBytes, bufferBytes, to) ==
    /\ -MaxOffset <= to /\ to <= MaxOffset
    /\ ret' = [op |-> op, length |-> length, at |-> offset,
               file |-> fileBytes, buffer |-> bufferBytes]
    /\ pc' = "called"
    /\ offset' = to
    /\ obj' = [obj EXCEPT !.offset = obj.offset - offset + to]
    /\ UNCHANGED <<kind, input, err, missing, active, encoded, reparsed, held, prior>>

\* stream.read(length) / stream.readBytes(length)
FileStream_callRead ==
    /\ kind = "stream" /\ pc \in {"start", "called"}
    /\ \E length \in 0..3,
          position \in IF obj.offset >= 0 THEN {obj.offset} ELSE -1..Len(input) :
          IF Throws(FileStream_read(obj, input, length, position))
          THEN /\ Throw(FileStream_read(obj, input, length, position).throws)
               /\ ret' = [op |-> "read", length |-> length, at |-> offset,
                          file |-> <<>>, buffer |-> read(input, offset, length)]
               /\ offset' = offset + length
               /\ UNCHANGED <<kind, input, obj, missing, active, encoded, reparsed,
                              held, prior>>
          ELSE StreamCalled("read", length,
                            FileStream_read(obj, input, length, position).bytes,
                            read(input, offset, length), offset + length)

\* stream.skip(value)
Stream_callSkip ==
    /\ kind = "stream" /\ pc \in {"start", "called"}
    /\ \E value \in {-4, -1, 1, 2} :
          StreamCalled("skip", 0, <<>>, <<>>, offset + value)

\* stream.seek(offset)
Stream_callSeek ==
    /\ kind = "stream" /\ pc \in {"start", "called"}
    /\ \E to \in {0, 2, 5} : StreamCalled("seek", 0, <<>>, <<>>, to)

\* stream.alignBlock(alignment)
Stream_callAlignBlock ==
    /\ kind = "stream" /\ pc \in {"start", "called"}
    /\ \E alignment \in {2, 4} :
          StreamCalled("alignBlock", 0, <<>>, <<>>, alignBlock(offset, alignment))

\* The bytes <<from + 1 .. to>> of the signature field of a signed
\* structure that starts at position p of the input; none when no known
\* signature type stands there.
SignatureField(p) ==
    IF Len(input) >= p + 4 /\ ~Throws(getSignatureSize(readUInt32BE(input, p)))
    THEN {<<p + 4, p + 4 + getSignatureSize(readUInt32BE(input, p)).SIGNATURE>>}
    ELSE {}

\* The signature fields of the input, as far as the parse got to them: of
\* the structure itself, or of the CIA's three certificates, ticket and TMD.
SignatureFields ==
    IF kind # "cia" THEN SignatureField(0)
    ELSE IF obj.contentIndex = Null THEN {}
    ELSE SignatureField(8256)
      \cup (IF obj.CACertificate = Null THEN {}
            ELSE SignatureField(8256 + Certificate_size(obj.CACertificate)))
      \cup (IF obj.ticketCertificate = Null THEN {}
            ELSE SignatureField(8256 + Certificate_size(obj.CACertificate)
                                     + Certificate_size(obj.ticketCertificate)))
      \cup (IF obj.TMDCertificate = Null THEN {}
            ELSE SignatureField(
                     alignBlock(8256 + Certificate_size(obj.CACertificate)
                                     + Certificate_size(obj.ticketCertificate)
                                     + Certificate_size(obj.TMDCertificate), BLOCK_SIZE))
                 \cup SignatureField(
                     alignBlock(
                         alignBlock(8256 + Certificate_size(obj.CACertificate)
                                         + Certificate_size(obj.ticketCertificate)
                                         + Certificate_size(obj.TMDCertificate), BLOCK_SIZE)
                           + obj.ticketSize, BLOCK_SIZE)))

\* The buffer b with every byte of the given fields set to `fill`.
Refill(b, fields, fill) ==
    [i \in 1..Len(b) |->
        IF \E f \in fields : f[1] < i /\ i <= f[2] THEN fill ELSE b[i]]

\* A second parse, of a buffer that differs from the first one only in the
\* bytes of its signature fields, or only in the certificateChainSize field
\* at 0x08 of a CIA header; the outcome of the first parse is kept.
Rerun ==
    /\ prior = Null
    /\ \/ kind = "cia" /\ pc \in {"done", "failed"}
       \/ kind \in {"certificate", "ticket", "tmd"} /\ pc \in {"parsed", "failed"}
    /\ \E changed \in {"signatures"}
                       \cup (IF kind = "cia" /\ Len(input) >= 12
                             THEN {"certificateChainSize"} ELSE {}) :
          /\ input' = IF changed = "signatures"
                      THEN Refill(input, SignatureFields, 64)
                      ELSE Refill(input, {<<8, 12>>}, 64)
          /\ prior' = [input |-> input, pc |-> pc, err |-> err, offset |-> offset,
                       missing |-> missing, obj |-> obj, changed |-> changed]
    /\ pc' = "start"
    /\ offset' = 0
    /\ obj' = IF kind = "cia" THEN CIA_new ELSE Null
    /\ err' = ""
    /\ missing' = 0
    /\ active' = {}
    /\ UNCHANGED <<kind, encoded, reparsed, ret, held>>

Reparsed(r) ==
    /\ reparsed' = r.val
    /\ IF r.err # "" THEN pc' = "reparseFailed" /\ err' = r.err
       ELSE pc' = "reparsed" /\ err' = err
    /\ UNCHANGED <<kind, input, offset, obj, missing, active, encoded, ret, held, prior>>

\* new X(x.bytes()): a second standalone parse, of the encoding.
Reparse ==
    /\ kind \in {"certificate", "ticket", "tmd"} /\ pc = "encoded"
    /\ Reparsed(CASE kind = "certificate" -> Certificate_parse(encoded, 0)
                  [] kind = "ticket" -> Ticket_parse(encoded, 0)
                  [] kind = "tmd" -> TMD_parse(encoded, 0))

\* getSignatureSize(code) for a code taken from four big-endian bytes.
SignatureLookup ==
    /\ kind = "signature" /\ pc = "start"
    /\ LET r == getSignatureSize(readUInt32BE(input, 0))
       IN  IF Throws(r) THEN Throw(r.throws) /\ obj' = obj
           ELSE pc' = "done" /\ err' = err /\ obj' = r
    /\ UNCHANGED <<kind, input, offset, missing, active, encoded, reparsed, ret, held, prior>>

NextCIA ==
    \/ CIA_readHeaderSize
    \/ CIA_readHeaderFields
    \/ CIA_parseCertificates
    \/ CIA_parseTicket
    \/ CIA_parseTMD
    \/ CIA_readContents
    \/ CIA_parseMeta
    \/ CIA_parseContentIndex
    \/ Rerun

NextCodec ==
    \/ Certificate_constructor
    \/ Ticket_constructor
    \/ TMD_constructor
    \/ Certificate_callBytes
    \/ Ticket_callBytes
    \/ TMD_callBytes
    \/ Reparse
    \/ Certificate_assignKeyType
    \/ Certificate_assignField
    \/ Ticket_assignTitleVersion
    \/ TMD_assignTitleVersion
    \/ Certificate_callExportKey
    \/ Certificate_callVerifySignature
    \/ Rerun

SpecCIA == InitCIA /\ [][NextCIA]_vars

SpecCodec == InitCodec /\ [][NextCodec]_vars

SpecSig == InitSig /\ [][SignatureLookup]_vars

SpecStream ==
    InitStream
      /\ [][FileStream_callRead \/ Stream_callSkip \/ Stream_callSeek
               \/ Stream_callAlignBlock]_vars

SpecEmbedded ==
    InitEmbedded /\ [][Certificate_constructor \/ Ticket_constructor \/ TMD_constructor]_vars

\* Every entry point of the package: the CIA parse and the standalone
\* structures.
SpecAll == (InitCIA \/ InitCodec) /\ [][NextCIA \/ NextCodec]_vars

(***************************************************************************)
(* Properties                                                              *)
(***************************************************************************)
\* The little-endian 32-bit value of the first four bytes of the input.
FirstWordLE ==
    input[1] + 256 * input[2] + 65536 * input[3] + 16777216 * input[4]

\* The big-endian 32-bit value of the four bytes of b after position at.
WordBE(b, at) ==
    16777216 * b[at + 1] + 65536 * b[at + 2] + 256 * b[at + 3] + b[at + 4]

\* Bit v of a byte, v = 0 the least significant.
BitOf(byte, v) == (byte \div (2 ^ v)) % 2

\* The indices i * 8 + (7 - v) of the bits that are 1 in a bitmap.
BitmapIndices(bitmap) ==
    {q[1] * 8 + (7 - q[2]) :
        q \in {r \in {i \in 0..(Len(bitmap) - 1) : bitmap[i + 1] # 0} \X (0..7) :
                  BitOf(bitmap[r[1] + 1], r[2]) = 1}}

RecordIndices(records) == {records[k].index : k \in 1..Len(records)}

\* parseContentIndex has run: it ended in success or in its own error.
ContentIndexChecked ==
    /\ kind = "cia"
    /\ pc = "done" \/ (pc = "failed" /\ err = "ContentIndexMismatch")

MismatchIffNotSubset(A, T) ==
    /\ (pc = "failed") <=> ~(A \subseteq T)
    /\ pc = "failed" => missing = Cardinality(A \ T)

\* C1: CIA parsing fails with the content-index-mismatch error exactly when
\* the set A of indices active in the bitmap is not a subset of the set T of
\* the TMD records' indices, and the error then reports |A \ T|.
C1_MismatchIffNotSubset ==
    ContentIndexChecked =>
        MismatchIffNotSubset(BitmapIndices(obj.contentIndex),
                             RecordIndices(obj.TMD.contentChunkRecords))

\* T = {0, 1, 2}, A = {0, 1, 2, 3}: the parse failed reporting 1.
C1_Witness ==
    /\ ContentIndexChecked
    /\ pc = "failed" /\ missing = 1
    /\ active = {0, 1, 2, 3}
    /\ RecordIndices(obj.TMD.contentChunkRecords) = {0, 1, 2}

\* C2: the active set parseContentIndex computes holds i * 8 + (7 - v) for
\* exactly the bytes i and bits v (0 the least significant) that are 1.
C2_BitmapDecoding ==
    ContentIndexChecked => active = BitmapIndices(obj.contentIndex)

\* Byte 0b10000001 at position 0 and nothing else set: exactly {0, 7}.
C2_Witness ==
    /\ ContentIndexChecked
    /\ obj.contentIndex[1] = 129
    /\ active = {0, 7}

\* The sum of the sizes of the first k records.
RECURSIVE SizeSum(_, _)
SizeSum(records, k) ==
    IF k = 0 THEN 0 ELSE SizeSum(records, k - 1) + ToNumber(records[k].size)

SliceIs(content, record, region, start) ==
    /\ content.id = record.id
    /\ Len(content.data) = ToNumber(record.size)
    /\ content.data = SubSeq(region, start + 1, start + ToNumber(record.size))

\* C3: after a successful CIA parse, contents has one entry per TMD record,
\* in TMD order, entry k tagged with record k's id and holding the bytes of
\* the content region from the sum of the earlier sizes, exactly `size` long.
C3_ContentSlicing ==
    (kind = "cia" /\ pc = "done") =>
        /\ Len(obj.contents) = obj.TMD.contentCount
        /\ Len(obj.contents) = Len(obj.TMD.contentChunkRecords)
        /\ \A k \in 1..Len(obj.contents) :
              SliceIs(obj.contents[k], obj.TMD.contentChunkRecords[k],
                      obj.encryptedContents,
                      SizeSum(obj.TMD.contentChunkRecords, k - 1))

\* C4: a first word other than 0x2020 ends the parse with the header error
\* after four bytes, nothing assigned; a first word of 0x2020 never does.
C4_HeaderCheck ==
    (kind = "cia" /\ pc # "start" /\ Len(input) >= 4) =>
        IF FirstWordLE # 8224
        THEN pc = "failed" /\ err = "InvalidHeaderSize" /\ offset = 4 /\ obj = CIA_new
        ELSE err # "InvalidHeaderSize"

\* The big-endian spelling of 0x2020 is rejected.
C4_Witness ==
    /\ kind = "cia" /\ pc = "failed" /\ err = "InvalidHeaderSize"
    /\ FirstWordLE = 538968064

\* C5: getSignatureSize returns (0x200, 0x3C, 0x23C) for 0x10000 and
\* 0x10003, (0x100, 0x3C, 0x13C) for 0x10001 and 0x10004, (0x3C, 0x40, 0x7C)
\* for 0x10002 and 0x10005, and throws for every other code.
C5_SignatureTable ==
    (kind = "signature" /\ pc # "start") =>
        CASE WordBE(input, 0) \in {65536, 65539} ->
                 pc = "done" /\ obj = [SIGNATURE |-> 512, PADDING |-> 60, TOTAL |-> 572]
          [] WordBE(input, 0) \in {65537, 65540} ->
                 pc = "done" /\ obj = [SIGNATURE |-> 256, PADDING |-> 60, TOTAL |-> 316]
          [] WordBE(input, 0) \in {65538, 65541} ->
                 pc = "done" /\ obj = [SIGNATURE |-> 60, PADDING |-> 64, TOTAL |-> 124]
          [] OTHER -> pc = "failed" /\ err = "UnknownSignatureType"

C5_Witness ==
    /\ kind = "signature" /\ pc = "done"
    /\ WordBE(input, 0) = 65538
    /\ obj.TOTAL = obj.SIGNATURE + obj.PADDING

\* bytes() has been called on the result of a standalone parse.
BytesCalled == pc \in {"encoded", "encodeFailed", "reparsed", "reparseFailed"}

\* C6: when a standalone parse of a Certificate, Ticket or TMD succeeds and
\* consumes the whole input, bytes() of the result is the input.
C6_ByteExact ==
    (kind \in {"certificate", "ticket", "tmd"} /\ BytesCalled /\ offset = Len(input)) =>
        pc # "encodeFailed" /\ encoded = input

\* C7: parsing x.bytes() of a freshly parsed x succeeds and gives x back.
C7_RoundTrip ==
    (kind \in {"certificate", "ticket", "tmd"} /\ pc # "start" /\ pc # "failed") =>
        /\ pc \notin {"encodeFailed", "reparseFailed"}
        /\ pc = "reparsed" => reparsed = obj

\* The cursor after `limits` in a ticket with this signature type.
AfterLimits(signatureType) == 4 + getSignatureSize(signatureType).TOTAL + 356

\* The input is a ticket that ends with its contentIndex, its 64-bit fields
\* below 2^63.
TicketEndsWithContentIndex(p) ==
    /\ Len(input) >= p + 8
    /\ Len(input) = p + WordBE(input, p + 4)
    /\ \A at \in {p - 212, p - 200, p - 188} : input[at + 1] < 128

BackReference(t, p, L) ==
    /\ p + L <= Len(input)
    /\ t.contentIndex = SubSeq(input, p + 1, p + L)
    /\ L >= 8 => WordBE(t.contentIndex, 4) = Len(t.contentIndex)
    /\ offset = p + L

TicketParsed == kind = "ticket" /\ pc \notin {"start", "failed"}

StartsBeforeLengthField(t, lengthField, N, back) ==
    /\ Len(t.contentIndex) = N
    /\ \A i \in 1..N : t.contentIndex[i] = input[lengthField - back + i]

TMDParsed == kind = "tmd" /\ pc \notin {"start", "failed"}

\* The chunk records of t are the 48-byte records of the input from `at` on.
ChunkRecordsStartAt(t, at) ==
    \A k \in 1..Len(t.contentChunkRecords) :
        /\ t.contentChunkRecords[k].id = WordBE(input, at + 48 * (k - 1))
        /\ t.contentChunkRecords[k].hash =
               SubSeq(input, at + 48 * (k - 1) + 17, at + 48 * k)

InfoRecordTable(t, d) ==
    /\ Len(t.contentChunkRecords) = t.contentCount
    /\ IF t.version = 1
       THEN /\ Len(t.contentInfoRecords) = 64
            /\ Len(t.contentInfoRecordsHash) = 32
       ELSE /\ t.contentInfoRecords = Null
            /\ t.contentInfoRecordsHash = Null
            /\ ChunkRecordsStartAt(t, d + 164)

C10_WitnessOtherVersion ==
    /\ TMDParsed
    /\ obj.version = 2 /\ obj.contentCount = 3
    /\ obj.contentInfoRecords = Null

CertificateParsed == kind = "certificate" /\ (pc = "parsed" \/ BytesCalled)

\* C11: every Certificate that parse returns has a publicKeyData of 0x238
\* bytes for keyType 0, 0x138 for keyType 1 and 0x78 for keyType 2, also when
\* the input ends inside the key payload.
C11_KeyLength ==
    CertificateParsed =>
        /\ obj.keyType \in {0, 1, 2}
        /\ Len(obj.publicKeyData) =
               (CASE obj.keyType = 0 -> 568 [] obj.keyType = 1 -> 312 [] OTHER -> 120)


\* A certificate with a known signature type starts at position p of the
\* input, holds all its fields up to the expiration, and its keyType is
\* none of 0, 1, 2.
UnknownKeyTypeAt(p) ==
    /\ Len(input) >= p + 4
    /\ ~Throws(getSignatureSize(WordBE(input, p)))
    /\ Len(input) >= p + 4 + getSignatureSize(WordBE(input, p)).TOTAL + 136
    /\ WordBE(input, p + 4 + getSignatureSize(WordBE(input, p)).TOTAL + 64) \notin {0, 1, 2}

\* C12: a certificate whose keyType is none of 0, 1, 2 makes Certificate
\* parse throw the unknown-key-type error and yield no certificate; a Ticket
\* or TMD parse that reaches such a trailing certificate, and a CIA parse
\* that reaches such a chain certificate, do not complete; exportKey() on a
\* certificate with such a keyType throws and returns no key.
C12_UnknownKeyTypeFatal ==
    /\ (kind = "certificate" /\ pc # "start" /\ UnknownKeyTypeAt(0)) =>
           pc = "failed" /\ err = "UnknownKeyType" /\ obj = Null
    /\ (kind \in {"ticket", "tmd"} /\ pc \notin {"start", "failed"} /\ UnknownKeyTypeAt(0)) =>
           obj.selfCertificate = Null /\ offset = Len(input)
    /\ (kind = "cia" /\ UnknownKeyTypeAt(8256)) =>
           /\ pc \in {"start", "header", "certificates", "failed"}
           /\ (pc = "failed" /\ offset > 8256) =>
                  err = "UnknownKeyType" /\ obj.CACertificate = Null
    /\ (pc \in {"exported", "exportFailed"} /\ obj.keyType \notin {0, 1, 2}) =>
           pc = "exportFailed" /\ err = "UnknownKeyType" /\ "pem" \notin DOMAIN ret

C12_Witness ==
    /\ kind = "certificate" /\ UnknownKeyTypeAt(0)
    /\ pc = "failed" /\ err = "UnknownKeyType"

C12_WitnessTicket ==
    /\ kind = "ticket" /\ UnknownKeyTypeAt(0)
    /\ pc = "failed" /\ err = "UnknownKeyType"

C12_WitnessTMD ==
    /\ kind = "tmd" /\ UnknownKeyTypeAt(0)
    /\ pc = "failed" /\ err = "UnknownKeyType"

C12_WitnessCIA ==
    /\ kind = "cia" /\ UnknownKeyTypeAt(8256)
    /\ pc = "failed" /\ err = "UnknownKeyType"

C12_WitnessExportKey ==
    /\ pc = "exportFailed" /\ obj.keyType \notin {0, 1, 2}

\* verifySignature has been called on a certificate.
VerifyCalled == pc \in {"verified", "verifyFailed"}

\* C13: verifySignature on a certificate with keyType 0, 1 or 2 whose key
\* the library imports returns a boolean, false when the signature does not
\* match; on a certificate with any other keyType it throws.
C13_VerifyOutcome ==
    VerifyCalled =>
        /\ (obj.keyType \in {0, 1, 2} /\ err # "KeyImportError") =>
               /\ pc = "verified"
               /\ ret.returns \in BOOLEAN
               /\ ~ret.matches => ret.returns = FALSE
        /\ obj.keyType \notin {0, 1, 2} => pc = "verifyFailed"

\* verifySignature returned false, without throwing, on a certificate whose
\* keyType is none of 0, 1, 2.
C13_UnknownKeyTypeReturnsFalse ==
    /\ pc = "verified" /\ obj.keyType \notin {0, 1, 2}
    /\ ret.returns = FALSE

\* The parse of the structure named by `kind` has returned it.
ParseReturned ==
    \/ kind = "cia" /\ pc = "done"
    \/ kind \in {"certificate", "ticket", "tmd"} /\ (pc = "parsed" \/ BytesCalled)

\* C14: no parse returns a structure one of whose fields is shorter than
\* its fixed or declared length: the signature, a certificate's key
\* payload, a ticket's contentIndex, a TMD record's hash, the CIA's bitmap,
\* its content region of contentSize bytes, and each content slice of the
\* record's `size` bytes.
C14_TruncatedInputFatal ==
    ParseReturned =>
        /\ kind # "cia" =>
               Len(obj.signature) = getSignatureSize(obj.signatureType).SIGNATURE
        /\ kind = "certificate" =>
               Len(obj.publicKeyData) = PublicKeyLength(obj.keyType)
        /\ kind = "ticket" =>
               /\ Len(obj.limits) = 64
               /\ Len(obj.contentIndex) >= 8
               /\ Len(obj.contentIndex) = WordBE(obj.contentIndex, 4)
        /\ kind = "tmd" =>
               \A k \in 1..Len(obj.contentChunkRecords) :
                   Len(obj.contentChunkRecords[k].hash) = 32
        /\ kind = "cia" =>
               /\ Len(obj.contentIndex) = CIA_CONTENT_INDEX_SIZE
               /\ Len(obj.encryptedContents) = ToNumber(obj.contentSize)
               /\ \A k \in 1..Len(obj.contents) :
                      Len(obj.contents[k].data) =
                          ToNumber(obj.TMD.contentChunkRecords[k].size)

\* What the caller can reach of the structure a parse worked on: the
\* instance it made itself, or the value a constructor returned.
CallerHolds ==
    IF held \/ pc # "failed" THEN obj ELSE Null

\* No field of the CIA instance o has been assigned by a parse.  The
\* header's integer fields are assigned together with contentSize and
\* contentIndex.
Unpopulated(o) ==
    /\ o.contentSize = Null /\ o.contentIndex = Null
    /\ o.CACertificate = Null /\ o.ticketCertificate = Null /\ o.TMDCertificate = Null
    /\ o.ticket = Null /\ o.TMD = Null /\ o.encryptedContents = Null
    /\ o.contents = <<>> /\ o.meta = Null

\* C15: after a failing parse the caller holds no partially populated
\* instance: nothing at all, or an instance none of whose fields the parse
\* has assigned.
C15_ParseAtomicity ==
    pc = "failed" => CallerHolds = Null \/ Unpopulated(CallerHolds)

\* A parse that failed at the content-index check of an instance the
\* caller holds: header fields, certificates, ticket and TMD are assigned.
C15_PartialInstance ==
    /\ kind = "cia" /\ held /\ pc = "failed" /\ err = "ContentIndexMismatch"
    /\ obj.ticket # Null /\ obj.TMD # Null /\ obj.contents = <<>>

\* size() of the structure a standalone or embedded parse returned.
SizeOfParsed ==
    CASE kind = "certificate" -> Certificate_size(obj)
      [] kind = "ticket" -> Ticket_size(obj)
      [] kind = "tmd" -> TMD_size(obj)

\* C16: a Certificate, Ticket or TMD parsed from an outer stream whose
\* cursor is at p leaves the cursor at p + size() of what it returned.
C16_EmbeddedAddressing ==
    pc = "parsed" => offset = Len(EmbeddedPrefix) + SizeOfParsed

\* A ticket or TMD followed by one more byte in a stream that begins with a
\* certificate: that certificate is read twice, from the start of the
\* stream, and the outer cursor stays behind the ticket's or TMD's own bytes.
C16_CertificatesFromStart ==
    /\ kind \in {"ticket", "tmd"} /\ pc = "parsed"
    /\ obj.selfCertificate # Null /\ obj.CACertificate = obj.selfCertificate
    /\ offset = Len(input) - 1
    /\ SizeOfParsed = offset + Len(EmbeddedPrefix)

\* The length of a parsed ticket's or TMD's own bytes: size() without the
\* trailing certificates.
OwnSize ==
    SizeOfParsed
      - (IF obj.selfCertificate = Null THEN 0 ELSE Certificate_size(obj.selfCertificate))
      - (IF obj.CACertificate = Null THEN 0 ELSE Certificate_size(obj.CACertificate))

\* C17: a Ticket or TMD parse of an input that ends with the structure's
\* own bytes returns it without certificates; when bytes follow,
\* selfCertificate is the certificate that starts right behind the
\* structure's own bytes and CACertificate the one that starts behind it.
C17_TrailingCertificates ==
    (kind \in {"ticket", "tmd"} /\ pc = "parsed") =>
        IF Len(input) = OwnSize
        THEN obj.selfCertificate = Null /\ obj.CACertificate = Null
        ELSE /\ obj.selfCertificate = Certificate_parse(input, OwnSize).val
             /\ obj.CACertificate =
                    Certificate_parse(input, Certificate_parse(input, OwnSize).off).val

\* A ticket or TMD followed by two certificates was parsed, and both of
\* its certificates are the one that the start of the input parses as.
C17_BothFromStart ==
    /\ kind \in {"ticket", "tmd"} /\ pc = "parsed" /\ Len(input) > OwnSize
    /\ Certificate_parse(input, OwnSize).err = ""
    /\ obj.selfCertificate = Certificate_parse(input, 0).val
    /\ obj.CACertificate = obj.selfCertificate
    /\ obj.selfCertificate # Certificate_parse(input, OwnSize).val

\* The length of the signed range of the parsed structure.
SignedLength ==
    CASE kind = "certificate" -> 136 + Len(obj.publicKeyData)
      [] kind = "ticket" -> 356 + Len(obj.contentIndex)
      [] kind = "tmd" -> IF obj.version = 1 THEN 196 ELSE 164

\* signatureBody is the signed range of `bytes`, which starts behind the
\* signature header.
SignatureBodyIn(bytes) ==
    /\ Len(obj.signatureBody) = SignedLength
    /\ obj.signatureBody =
           SubSeq(bytes, 4 + getSignatureSize(obj.signatureType).TOTAL + 1,
                  4 + getSignatureSize(obj.signatureType).TOTAL + SignedLength)

\* C18: for every freshly parsed Certificate, Ticket or TMD x, bytes()
\* returns and x.signatureBody is x.bytes() from offset 4 + signature total
\* over 0x88 + len(publicKeyData), 0x164 + len(contentIndex), or 0xA4 (0xC4
\* for TMD version 1) bytes.
C18_SignatureBodyRange ==
    (kind \in {"certificate", "ticket", "tmd"} /\ BytesCalled) =>
        pc # "encodeFailed" /\ SignatureBodyIn(encoded)

\* Where the content region of a parsed CIA starts: each of certificate
\* chain, ticket and TMD is followed by an alignment to 64 bytes.
ContentStart ==
    alignBlock(
        alignBlock(
            alignBlock(8256 + Certificate_size(obj.CACertificate)
                            + Certificate_size(obj.ticketCertificate)
                            + Certificate_size(obj.TMDCertificate), 64)
              + obj.ticketSize, 64)
          + obj.TMDSize, 64)

\* The first byte behind the content region.
MetaStart == ContentStart + ToNumber(obj.contentSize)

\* The eight input bytes after position at are the little-endian spelling
\* of the 64-bit value v.
IsLE64At(v, at) ==
    /\ v.l = input[at + 1] + 256 * input[at + 2] + 65536 * input[at + 3]
    /\ v.m = input[at + 4] + 256 * input[at + 5] + 65536 * input[at + 6]
    /\ (v.h + 65536) % 65536 = input[at + 7] + 256 * input[at + 8]

\* C19: after a successful CIA parse meta is present exactly when metaSize
\* is not 0; then it holds 48 dependencies, the little-endian 64-bit values
\* of the 0x180 bytes behind the content region, then the next 0x180 bytes
\* as reserved1, a little-endian 32-bit coreVersion, 0xFC bytes of reserved2
\* and the icon; when metaSize is 0 the cursor ends behind the content
\* region.
C19_MetaBlock ==
    (kind = "cia" /\ pc = "done") =>
        IF obj.metaSize = 0
        THEN obj.meta = Null /\ offset = MetaStart
        ELSE /\ obj.meta # Null
             /\ Len(obj.meta.dependencies) = 48
             /\ \A k \in 1..48 :
                    IsLE64At(obj.meta.dependencies[k], MetaStart + 8 * (k - 1))
             /\ obj.meta.reserved1 = SubSeq(input, MetaStart + 385, MetaStart + 768)
             /\ obj.meta.coreVersion =
                    input[MetaStart + 769] + 256 * input[MetaStart + 770]
                      + 65536 * input[MetaStart + 771] + 16777216 * input[MetaStart + 772]
             /\ obj.meta.reserved2 = SubSeq(input, MetaStart + 773, MetaStart + 1024)
             /\ obj.meta.iconData # Null
             /\ offset = MetaStart + 1024 + 8256 + 1152 + 4608

\* A parse with a meta block whose dependencies are not all zero.
C19_Witness ==
    /\ kind = "cia" /\ pc = "done" /\ obj.metaSize # 0 /\ obj.meta # Null
    /\ obj.meta.dependencies[2].l = 2 /\ obj.meta.coreVersion = 2

\* A parse that ignores the meta bytes behind the content region because
\* metaSize is 0.
C19_WitnessAbsent ==
    /\ kind = "cia" /\ pc = "done" /\ obj.metaSize = 0 /\ obj.meta = Null
    /\ Len(input) > MetaStart

\* A structure without its signature buffers, those of nested certificates
\* included.
WithoutSignature(x) ==
    IF x = Null THEN Null
    ELSE IF "selfCertificate" \in DOMAIN x
    THEN [x EXCEPT !.signature = <<>>,
                   !.selfCertificate = IF @ = Null THEN Null ELSE [@ EXCEPT !.signature = <<>>],
                   !.CACertificate = IF @ = Null THEN Null ELSE [@ EXCEPT !.signature = <<>>]]
    ELSE [x EXCEPT !.signature = <<>>]

WithoutSignatures(o) ==
    IF o = Null THEN Null
    ELSE IF "ticket" \in DOMAIN o
    THEN [o EXCEPT !.CACertificate = WithoutSignature(@),
                   !.ticketCertificate = WithoutSignature(@),
                   !.TMDCertificate = WithoutSignature(@),
                   !.ticket = WithoutSignature(@),
                   !.TMD = WithoutSignature(@)]
    ELSE WithoutSignature(o)

\* The parse of the second buffer has ended.
SecondParseEnded ==
    /\ prior # Null
    /\ prior.changed = "signatures"
    /\ \/ kind = "cia" /\ pc \in {"done", "failed"}
       \/ kind \in {"certificate", "ticket", "tmd"} /\ pc \in {"parsed", "failed"}

\* C20: two inputs that differ only in the bytes of signature fields both
\* fail, with the same error at the same cursor, or both parse, to
\* structures that are equal in every field but the signature buffers,
\* the content slices included.
C20_NoTrustDecision ==
    SecondParseEnded =>
        /\ pc = prior.pc /\ err = prior.err
        /\ offset = prior.offset /\ missing = prior.missing
        /\ WithoutSignatures(obj) = WithoutSignatures(prior.obj)

\* A CIA whose five signatures were all overwritten parsed to the end.
C20_Witness ==
    /\ SecondParseEnded /\ kind = "cia" /\ pc = "done"
    /\ input # prior.input
    /\ obj.ticket.signature[1] = 64 /\ obj.TMD.signature[1] = 64
    /\ obj.CACertificate.signature[1] = 64
    /\ obj.contents # <<>>

C20_WitnessTicket ==
    /\ SecondParseEnded /\ kind = "ticket" /\ pc = "parsed"
    /\ input # prior.input /\ obj.selfCertificate # Null

C20_WitnessFailed ==
    /\ SecondParseEnded /\ pc = "failed" /\ input # prior.input

\* The padding behind the signature of the structure at the start of b, as
\* a byte range <<from, to>>; none when b does not start with a known
\* signature type.
PaddingField(b) ==
    IF Len(b) >= 4 /\ KnownSignatureType(WordBE(b, 0))
    THEN {<<4 + getSignatureSize(WordBE(b, 0)).SIGNATURE,
            4 + getSignatureSize(WordBE(b, 0)).TOTAL>>}
    ELSE {}

\* The standalone parse of b as the structure named by `kind`.
ParseAs(b) ==
    CASE kind = "certificate" -> Certificate_parse(b, 0)
      [] kind = "ticket" -> Ticket_parse(b, 0)
      [] kind = "tmd" -> TMD_parse(b, 0)

SameOutcome(r) == r.err = err /\ r.off = offset /\ r.val = obj

\* C22: the parse of a Certificate, Ticket or TMD ends as the parse of the
\* same input with every padding byte behind its signature set to zero
\* does (same error, same cursor, same structure, so nothing of the padding
\* is stored or decides anything), and whenever bytes() returns, every
\* padding byte of the encoding is zero.
C22_PaddingIgnored ==
    kind \in {"certificate", "ticket", "tmd"} =>
        /\ pc \in {"parsed", "failed"} =>
               SameOutcome(ParseAs(Refill(input, PaddingField(input), 0)))
        /\ (BytesCalled /\ pc # "encodeFailed") =>
               \A f \in PaddingField(encoded) :
                   \A i \in (f[1] + 1)..f[2] : encoded[i] = 0

\* A TMD whose padding bytes are all 0xFF was parsed and encoded.
C22_Witness ==
    /\ kind = "tmd" /\ pc = "encoded"
    /\ PaddingField(input) = {<<260, 320>>}
    /\ \A i \in 261..320 : input[i] = 255 /\ encoded[i] = 0
    /\ obj.signature = Repeat(6, 256)

\* A decoded 64-bit value lies in [0, 2^64): its top limb is not negative.
IsUnsigned64(v) == v.h >= 0

\* C23: every decoded 64-bit field of a Ticket, a TMD or a CIA is
\* unsigned; a complete ticket parses whatever the top bits of its 64-bit
\* fields are; and bytes() of a parsed Ticket or TMD never throws.
C23_UnsignedDecoding ==
    /\ TicketParsed =>
           /\ IsUnsigned64(obj.ticketID)
           /\ IsUnsigned64(obj.titleID)
           /\ IsUnsigned64(obj.reserved3)
    /\ TMDParsed =>
           /\ IsUnsigned64(obj.systemVersion)
           /\ IsUnsigned64(obj.titleID)
           /\ \A k \in 1..Len(obj.contentChunkRecords) :
                  IsUnsigned64(obj.contentChunkRecords[k].size)
    /\ (kind = "cia" /\ obj.contentSize # Null) =>
           /\ IsUnsigned64(obj.contentSize)
           /\ obj.meta # Null =>
                  \A k \in 1..Len(obj.meta.dependencies) :
                      IsUnsigned64(obj.meta.dependencies[k])
    /\ (/\ kind = "ticket" /\ pc = "failed" /\ Len(input) >= 4
        /\ KnownSignatureType(WordBE(input, 0)))
          => ~(/\ Len(input) >= AfterLimits(WordBE(input, 0)) + 8
               /\ Len(input) = AfterLimits(WordBE(input, 0))
                                  + WordBE(input, AfterLimits(WordBE(input, 0)) + 4))
    /\ (kind \in {"ticket", "tmd"} /\ BytesCalled) => pc # "encodeFailed"

StageRank(p) ==
    CASE p = "start" -> 0
      [] p = "header" -> 1
      [] p = "certificates" -> 2
      [] p = "ticket" -> 3
      [] p = "tmd" -> 4
      [] p = "content" -> 5
      [] p = "meta" -> 6
      [] p = "contentIndex" -> 7
      [] p = "done" -> 8
      [] p = "failed" -> 8

\* C25: every step of a CIA parse moves to a later stage of the fixed
\* order, so that no stage runs twice or is revisited, and leaves the outer
\* cursor where it was or further on.
C25_StageOrder ==
    [][(kind = "cia" /\ prior' = prior) =>
           /\ StageRank(pc') > StageRank(pc)
           /\ offset' >= offset]_vars

\* x is the least multiple of 64 that is not below e.
LeastBlockNotBelow(x, e) == x % 64 = 0 /\ x >= e /\ x < e + 64

\* Where the certificate chain of the CIA under construction ends.
ChainEnd ==
    8256 + Certificate_size(obj.CACertificate)
         + Certificate_size(obj.ticketCertificate)
         + Certificate_size(obj.TMDCertificate)

\* C26: in a CIA parse the certificate chain begins at 0x2040; the Ticket
\* slice begins at the least multiple of 64 not below the end of the
\* chain and has ticketSize bytes; the TMD slice begins at the least
\* multiple of 64 not below the end of the Ticket slice and has TMDSize
\* bytes; the content region begins at the least multiple of 64 not below
\* the end of the TMD slice.
C26_SectionAlignment ==
    kind = "cia" =>
        /\ pc = "certificates" => offset = 8256 /\ offset % 64 = 0
        /\ pc = "ticket" =>
               /\ LeastBlockNotBelow(offset, ChainEnd)
               /\ Len(readBytes(input, offset, obj.ticketSize)) = obj.ticketSize
        /\ pc = "tmd" =>
               /\ \E ticketStart \in {ChainEnd + k : k \in 0..63} :
                      /\ LeastBlockNotBelow(ticketStart, ChainEnd)
                      /\ LeastBlockNotBelow(offset, ticketStart + obj.ticketSize)
               /\ Len(readBytes(input, offset, obj.TMDSize)) = obj.TMDSize
        /\ pc = "content" =>
               \E ticketStart \in {ChainEnd + k : k \in 0..63} :
                   /\ LeastBlockNotBelow(ticketStart, ChainEnd)
                   /\ \E TMDStart \in {ticketStart + obj.ticketSize + k : k \in 0..63} :
                          /\ LeastBlockNotBelow(TMDStart, ticketStart + obj.ticketSize)
                          /\ LeastBlockNotBelow(offset, TMDStart + obj.TMDSize)

\* The parse of a CIA buffer that differs from the first one in the
\* certificateChainSize field only has ended.
ChainSizeParseEnded ==
    /\ prior # Null
    /\ prior.changed = "certificateChainSize"
    /\ kind = "cia" /\ pc \in {"done", "failed"}

WithoutChainSize(o) == [o EXCEPT !.certificateChainSize = 0]

\* C27: two CIA inputs that differ only in certificateChainSize both fail,
\* with the same error at the same cursor, or both parse, to the same
\* certificates, ticket, TMD, contents, meta and remaining header fields;
\* and the Ticket slice starts at the least multiple of 64 not below
\* 0x2040 plus the size() of the three parsed certificates.
C27_ChainSizeUnused ==
    /\ ChainSizeParseEnded =>
           /\ pc = prior.pc /\ err = prior.err
           /\ offset = prior.offset /\ missing = prior.missing
           /\ WithoutChainSize(obj) = WithoutChainSize(prior.obj)
    /\ (kind = "cia" /\ pc = "ticket") => LeastBlockNotBelow(offset, ChainEnd)

\* A CIA whose certificateChainSize was overwritten parsed to the end, as
\* the one with the true chain size did.
C27_Witness ==
    /\ ChainSizeParseEnded /\ pc = "done"
    /\ prior.obj.certificateChainSize = 2560
    /\ obj.certificateChainSize = 1077952576
    /\ obj.contents # <<>> /\ obj.ticket # Null

\* The structure as the parse of the input returned it.
AsParsed == ParseAs(input).val

\* Where bytes() writes titleVersion: 0xA6 behind the signature header in a
\* Ticket, 0x9C in a TMD.
TitleVersionAt == IF kind = "ticket" THEN 166 ELSE 156

\* The two bytes of b behind position at, as a big-endian number.
HalfWordBE(b, at) == b[at + 1] * 256 + b[at + 2]

\* C28: after an assignment to issuer, keyType, name or expiration of a
\* parsed Certificate, signatureBody is what the parse built and bytes()
\* returns what it returns for the certificate as parsed; after an
\* assignment to titleVersion of a parsed Ticket or TMD, signatureBody is
\* what the parse built, still holding the parsed titleVersion, while the
\* encoding that bytes() returns holds the assigned one.
C28_BytesFromSnapshot ==
    /\ (kind = "certificate" /\ pc \in {"assigned", "assignedEncoded"}) =>
           obj.signatureBody = AsParsed.signatureBody
    /\ kind = "certificate" => pc # "assignedEncodeFailed"
    /\ (kind = "certificate" /\ pc = "assignedEncoded") =>
           encoded = Certificate_bytes(AsParsed)
    /\ (kind \in {"ticket", "tmd"} /\ pc \in {"assigned", "assignedEncoded"}) =>
           /\ obj.signatureBody = AsParsed.signatureBody
           /\ HalfWordBE(obj.signatureBody, TitleVersionAt) = AsParsed.titleVersion
    /\ (kind \in {"ticket", "tmd"} /\ pc = "assignedEncoded") =>
           HalfWordBE(encoded, 4 + getSignatureSize(obj.signatureType).TOTAL + TitleVersionAt)
               = obj.titleVersion

\* bytes() of a certificate whose keyType was set to 3 after the parse.
C28_Witness ==
    /\ kind = "certificate" /\ pc = "assignedEncoded"
    /\ obj.keyType = 3 /\ AsParsed.keyType = 1
    /\ encoded = input

\* bytes() of a ticket whose titleVersion was changed after the parse.
C28_WitnessTicket ==
    /\ kind = "ticket" /\ pc = "assignedEncoded"
    /\ obj.titleVersion = 7 /\ AsParsed.titleVersion = 1040
    /\ encoded # Ticket_bytes(AsParsed).val

\* read() was the last call made on the two streams.
ReadCalled == kind = "stream" /\ ret # Null /\ ret.op = "read"

\* C29 (as stated): over any sequence of read(n) with n >= 0, skip and
\* alignBlock calls on a buffer-backed stream, read(n) returns
\* min(n, max(0, remaining())) bytes and moves the offset by n, and
\* tell() + remaining() is the length of the buffer.
C29_ReadLength ==
    /\ ReadCalled =>
           /\ Len(ret.buffer) = Min(ret.length, Max(0, remaining(input, ret.at)))
           /\ offset = ret.at + ret.length
    /\ kind = "stream" => offset + remaining(input, offset) = Len(input)

\* Where an index given to the buffer lands: a negative one counts from the
\* end of the buffer, and both kinds stop at its two ends.
IndexInBuffer(i) ==
    IF i < 0 THEN Max(0, Len(input) + i) ELSE Min(i, Len(input))

\* C29 (amended): read(n) moves the offset by n in every case and
\* tell() + remaining() is the length of the buffer; it returns
\* min(n, max(0, remaining())) bytes when the offset it is called at is not
\* negative, and otherwise the bytes between the places that offset and
\* offset + n land at when counted from the end of the buffer.
C29_ReadLengthFromOffsetInBuffer ==
    /\ ReadCalled =>
           /\ Len(ret.buffer) =
                  IF ret.at >= 0
                  THEN Min(ret.length, Max(0, remaining(input, ret.at)))
                  ELSE Max(0, IndexInBuffer(ret.at + ret.length) - IndexInBuffer(ret.at))
           /\ offset = ret.at + ret.length
    /\ kind = "stream" => offset + remaining(input, offset) = Len(input)

\* A read that starts inside the buffer and ends behind it: fewer bytes
\* than asked for, and a cursor behind the end of the buffer.
C29_Witness ==
    /\ ReadCalled /\ ret.length = 3 /\ ret.at = 2 /\ Len(input) = 3
    /\ ret.buffer = <<9>>
    /\ offset = 5 /\ remaining(input, offset) = -2

\* C30: after the same calls a FileStream on a descriptor and a FileStream
\* on a buffer with the file's bytes have returned the same bytes from the
\* last read, neither of them having thrown, and agree on tell() and
\* remaining().
C30_BackingEquivalence ==
    kind = "stream" =>
        /\ pc # "failed"
        /\ ret # Null => ret.file = ret.buffer
        /\ obj.offset = offset
        /\ FileStream_remaining(obj) = remaining(input, offset)

=============================================================================
